---------------------------- MODULE Spec2Model ----------------------------
(***************************************************************************)
(* Model of the video cutter: the crop overlay of VideoPreview, the trim   *)
(* timeline, the playback handlers of App, the FFmpeg command builder      *)
(* processVideo and the ExportButton that drives it.                       *)
(*                                                                         *)
(* JavaScript numbers are modelled as exact rationals [n |-> _, d |-> _]   *)
(* in lowest terms with d > 0: pixel coordinates, seconds and speed        *)
(* factors are all fractions in the code (width / aspectRatio, percentage  *)
(* * duration, 1 / speed).                                                 *)
(***************************************************************************)
EXTENDS Integers, Sequences, FiniteSets, TLC

VARIABLES
  \* ---- App (src/src/App.jsx) ----
  videoFile,          \* useState(null): "none" or the loaded file
  videoMeta,          \* useState({duration, width, height})
  knownVideoDuration, \* window._knownVideoDuration
  currentTime,        \* useState(0): the cursor shown by the timeline
  isPlaying,          \* useState(false)
  trimStart,          \* useState(0)
  trimEnd,            \* useState(0)
  speed,              \* useState(1)
  selectedRatio,      \* useState(null)
  cropArea,           \* useState({x, y, width, height})
  video,              \* videoRef.current: the <video> element (currentTime, paused, duration)
  \* ---- VideoPreview (src/src/components/ScreenRecorder.jsx, second module) ----
  videoDimensions,    \* useState({width, height}) + videoWidth, videoHeight
  isDragging,         \* useState(false)
  dragHandle,         \* useState(null)
  dragStart,          \* useState({x, y})
  initialCrop,        \* useState(null)
  isAltPressed,       \* useState(false)
  \* ---- Timeline (src/src/components/Timeline.jsx) ----
  tlIsDragging,       \* Timeline's useState(null): null, 'start', 'end', 'playhead'
  \* ---- ExportButton (src/unnamed/part_001) and utils/ffmpeg.js ----
  isExporting,        \* useState(false) of the mounted ExportButton
  showOptions,        \* useState(false)
  format,             \* useState('mp4')
  quality,            \* useState('medium')
  mountId,            \* identity of the mounted ExportButton instance (0: none mounted)
  loaded,             \* module variable `loaded` of ffmpeg.js
  ffmpeg,             \* module variable `ffmpeg`: the FFmpeg instance (0: null)
  engines,            \* the FFmpeg instances created so far, in creation order
  calls,              \* the processVideo invocations, in start order
  timers,             \* pending setTimeout(..., 1000) callbacks of handleExport
  downloads,          \* files offered for download (a.click()), in order
  alerts,             \* alert() dialogs raised by handleExport, in order
  nExports,           \* number of handleExport invocations so far (bounds the run)
  \* ---- thumbnails (src/src/utils/thumbnails.js, first module) ----
  thumbnails,         \* App's useState([]): the strip shown by the timeline
  jobs,               \* the generateThumbnails(file, 15) calls, in start order
  gens,               \* the generateThumbnailsFromVideo(video, ...) calls, in start order
  \* ---- screen recording (src/unnamed/part_004, first module, and App) ----
  isRecording,        \* App's useState(false)
  intervals,          \* the setInterval timers of handleRecordingStart still running
  recordingTimerRef,  \* recordingTimerRef.current (0: null)
  recorders,          \* the MediaRecorders created so far, in creation order
  globalMediaRecorderRef, \* index of the recorder the module points to (0: null)
  globalStreamRef,    \* index of the recorder whose stream the module points to (0: null)
  globalIsActive,     \* module variable globalIsActive
  globalChunksRef,    \* number of chunks in globalChunksRef
  notifications,      \* recorders whose setTimeout(() => onRecordingStart(), 100) is pending
  pickers,            \* getDisplayMedia() requests not yet answered
  \* ---- bookkeeping of the model ----
  nLoads,             \* number of handleVideoLoad calls so far (bounds the run)
  nGestures           \* number of crop gestures started so far (bounds the run)

appVars    == <<videoFile, videoMeta, knownVideoDuration, currentTime, isPlaying,
                trimStart, trimEnd, speed, selectedRatio, cropArea, video>>
cropVars   == <<videoDimensions, isDragging, dragHandle, dragStart, initialCrop,
                isAltPressed>>
tlVars     == <<tlIsDragging>>
exportVars == <<isExporting, showOptions, format, quality, mountId, loaded, ffmpeg,
                engines, calls,
                timers, downloads, alerts, nExports>>
thumbVars  == <<thumbnails, jobs, gens>>
recVars    == <<isRecording, intervals, recordingTimerRef, recorders,
                globalMediaRecorderRef, globalStreamRef, globalIsActive,
                globalChunksRef, notifications, pickers>>
vars       == <<appVars, cropVars, tlVars, exportVars, thumbVars, recVars, nLoads,
                nGestures>>

-----------------------------------------------------------------------------
(* Rational arithmetic: JavaScript's Number on the values the code computes *)

RECURSIVE GCD(_, _)
GCD(a, b) == IF b = 0 THEN a ELSE GCD(b, a % b)

Abs(i) == IF i < 0 THEN -i ELSE i

\* the fraction n/d (d # 0) in lowest terms with a positive denominator
Q(n, d) ==
  LET s == IF d < 0 THEN -1 ELSE 1
      g == GCD(Abs(n), Abs(d))
  IN  [n |-> (s * n) \div g, d |-> (s * d) \div g]

I(i) == [n |-> i, d |-> 1]

Zero == I(0)
One  == I(1)
Two  == I(2)
Half == Q(1, 2)

Add(a, b) == Q(a.n * b.d + b.n * a.d, a.d * b.d)
Sub(a, b) == Q(a.n * b.d - b.n * a.d, a.d * b.d)
Mul(a, b) == Q(a.n * b.n, a.d * b.d)
Div(a, b) == Q(a.n * b.d, a.d * b.n)
Lt(a, b)  == a.n * b.d < b.n * a.d
Le(a, b)  == a.n * b.d <= b.n * a.d
Gt(a, b)  == Lt(b, a)
Ge(a, b)  == Le(b, a)
RMax(a, b) == IF Lt(a, b) THEN b ELSE a   \* Math.max
RMin(a, b) == IF Lt(b, a) THEN b ELSE a   \* Math.min
RAbs(a)    == [n |-> Abs(a.n), d |-> a.d] \* Math.abs

\* Math.round: the nearest integer, halves rounded towards +Infinity
Round(a) == (2 * a.n + a.d) \div (2 * a.d)

-----------------------------------------------------------------------------
(* Values                                                                   *)

Null   == [null |-> TRUE]      \* JavaScript null / undefined
Custom == [custom |-> TRUE]    \* the 'custom' aspect selection

MIN_SIZE == 50                 \* smallest crop width / height, source pixels

Rect(x, y, w, h) == [x |-> x, y |-> y, width |-> w, height |-> h]

\* useState({ x: 0, y: 0, width: 0, height: 0 })
EmptyCrop == Rect(Zero, Zero, Zero, Zero)

\* useState({ duration: 0, width: 0, height: 0 })
EmptyMeta == [duration |-> Zero, width |-> 0, height |-> 0]

\* useState({ width: 0, height: 0 }): videoWidth / videoHeight are undefined
EmptyDimensions == [width |-> 0, height |-> 0, videoWidth |-> 0, videoHeight |-> 0]

-----------------------------------------------------------------------------
(* VideoPreview: the crop overlay (handleMouseDown / Move / Up)             *)

ResizeHandles == {"n", "s", "e", "w", "ne", "nw", "se", "sw"}
CornerHandles == {"ne", "nw", "se", "sw"}
Handles       == {"move"} \cup ResizeHandles

\* dragHandle.includes(ch) for the one-letter strings the handler asks about
Includes(handle, ch) ==
  CASE ch = "e" -> handle \in {"e", "ne", "se", "move"}
    [] ch = "w" -> handle \in {"w", "nw", "sw"}
    [] ch = "s" -> handle \in {"s", "se", "sw"}
    [] ch = "n" -> handle \in {"n", "ne", "nw"}

\* getScale: displayed width over source width, 1 before the dimensions are known
getScale(dims) ==
  IF dims.videoWidth = 0 THEN One ELSE Q(dims.width, dims.videoWidth)

\* if (dragHandle.includes('e')) { ... }
EdgeE(c, ic, totalDx, alt, VW, VH) ==
  LET aspectRatio == Div(ic.width, ic.height)
      w1 == RMax(I(MIN_SIZE), RMin(Sub(VW, ic.x), Add(ic.width, totalDx)))
      h1 == Div(w1, aspectRatio)
  IN  IF ~alt THEN [c EXCEPT !.width = w1]
      ELSE IF Gt(Add(ic.y, h1), VH)
           THEN [c EXCEPT !.height = Sub(VH, ic.y),
                          !.width  = Mul(Sub(VH, ic.y), aspectRatio)]
           ELSE [c EXCEPT !.width = w1, !.height = h1]

\* if (dragHandle.includes('w')) { ... }
EdgeW(c, ic, totalDx, alt, VW, VH) ==
  LET aspectRatio  == Div(ic.width, ic.height)
      newWidth     == RMax(I(MIN_SIZE), Sub(ic.width, totalDx))
      newX         == Add(ic.x, Sub(ic.width, newWidth))
      heightChange == Div(Sub(ic.width, newWidth), aspectRatio)
      y1           == Add(ic.y, heightChange)
      hB           == Add(ic.y, ic.height)
      wB           == Mul(hB, aspectRatio)
  IN  IF ~Ge(newX, Zero) THEN c
      ELSE IF ~alt THEN [c EXCEPT !.width = newWidth, !.x = newX]
      ELSE IF Lt(y1, Zero)
           THEN Rect(Sub(Add(ic.x, ic.width), wB), Zero, wB, hB)
           ELSE Rect(newX, y1, newWidth, Sub(ic.height, heightChange))

\* if (dragHandle.includes('s')) { ... }
EdgeS(c, ic, totalDy, alt, VW, VH) ==
  LET aspectRatio == Div(ic.width, ic.height)
      h1 == RMax(I(MIN_SIZE), RMin(Sub(VH, ic.y), Add(ic.height, totalDy)))
      w1 == Mul(h1, aspectRatio)
  IN  IF ~alt THEN [c EXCEPT !.height = h1]
      ELSE IF Gt(Add(ic.x, w1), VW)
           THEN [c EXCEPT !.width  = Sub(VW, ic.x),
                          !.height = Div(Sub(VW, ic.x), aspectRatio)]
           ELSE [c EXCEPT !.height = h1, !.width = w1]

\* if (dragHandle.includes('n')) { ... }
EdgeN(c, ic, totalDy, alt, VW, VH) ==
  LET aspectRatio == Div(ic.width, ic.height)
      newHeight   == RMax(I(MIN_SIZE), Sub(ic.height, totalDy))
      newY        == Add(ic.y, Sub(ic.height, newHeight))
      widthChange == Mul(Sub(ic.height, newHeight), aspectRatio)
      x1          == Add(ic.x, widthChange)
      wB          == Add(ic.x, ic.width)
      hB          == Div(wB, aspectRatio)
  IN  IF ~Ge(newY, Zero) THEN c
      ELSE IF ~alt THEN [c EXCEPT !.height = newHeight, !.y = newY]
      ELSE IF Lt(x1, Zero)
           THEN Rect(Zero, Sub(Add(ic.y, ic.height), hB), wB, hB)
           ELSE Rect(x1, newY, Sub(ic.width, widthChange), newHeight)


\* the driving dimension of an Alt corner drag: the axis with the larger |delta|;
\* sx, sy are the signs with which the deltas enter the width and the height
CornerSize(ic, totalDx, totalDy, sx, sy) ==
  LET aspectRatio == Div(ic.width, ic.height)
      wX == RMax(I(MIN_SIZE), Add(ic.width, Mul(I(sx), totalDx)))
      hY == RMax(I(MIN_SIZE), Add(ic.height, Mul(I(sy), totalDy)))
  IN  IF Gt(RAbs(totalDx), RAbs(totalDy))
      THEN [width |-> wX, height |-> Div(wX, aspectRatio)]
      ELSE [width |-> Mul(hY, aspectRatio), height |-> hY]

\* if (dragHandle === 'se') { ... }
CornerSE(c, ic, totalDx, totalDy, VW, VH) ==
  LET aspectRatio == Div(ic.width, ic.height)
      s0 == CornerSize(ic, totalDx, totalDy, 1, 1)
      c1 == [c EXCEPT !.width = s0.width, !.height = s0.height]
      c2 == IF Gt(Add(ic.x, c1.width), VW)
            THEN [c1 EXCEPT !.width  = Sub(VW, ic.x),
                            !.height = Div(Sub(VW, ic.x), aspectRatio)]
            ELSE c1
  IN  IF Gt(Add(ic.y, c2.height), VH)
      THEN [c2 EXCEPT !.height = Sub(VH, ic.y),
                      !.width  = Mul(Sub(VH, ic.y), aspectRatio)]
      ELSE c2

\* if (dragHandle === 'nw') { ... }
CornerNW(c, ic, totalDx, totalDy, VW, VH) ==
  LET aspectRatio == Div(ic.width, ic.height)
      right  == Add(ic.x, ic.width)
      bottom == Add(ic.y, ic.height)
      s0 == CornerSize(ic, totalDx, totalDy, -1, -1)
      c1 == Rect(Sub(right, s0.width), Sub(bottom, s0.height), s0.width, s0.height)
      c2 == IF Lt(c1.x, Zero)
            THEN Rect(Zero, Sub(bottom, Div(right, aspectRatio)),
                      right, Div(right, aspectRatio))
            ELSE c1
  IN  IF Lt(c2.y, Zero)
      THEN Rect(Sub(right, Mul(bottom, aspectRatio)), Zero,
                Mul(bottom, aspectRatio), bottom)
      ELSE c2

\* if (dragHandle === 'ne') { ... }: newCrop.x is not assigned here
CornerNE(c, ic, totalDx, totalDy, VW, VH) ==
  LET aspectRatio == Div(ic.width, ic.height)
      bottom == Add(ic.y, ic.height)
      s0 == CornerSize(ic, totalDx, totalDy, 1, -1)
      c1 == [c EXCEPT !.width = s0.width, !.height = s0.height,
                      !.y = Sub(bottom, s0.height)]
      wB == Sub(VW, ic.x)
      c2 == IF Gt(Add(ic.x, c1.width), VW)
            THEN [c1 EXCEPT !.width = wB, !.height = Div(wB, aspectRatio),
                            !.y = Sub(bottom, Div(wB, aspectRatio))]
            ELSE c1
  IN  IF Lt(c2.y, Zero)
      THEN [c2 EXCEPT !.y = Zero, !.height = bottom,
                      !.width = Mul(bottom, aspectRatio)]
      ELSE c2

\* if (dragHandle === 'sw') { ... }: newCrop.y is not assigned here
CornerSW(c, ic, totalDx, totalDy, VW, VH) ==
  LET aspectRatio == Div(ic.width, ic.height)
      right == Add(ic.x, ic.width)
      s0 == CornerSize(ic, totalDx, totalDy, -1, 1)
      c1 == [c EXCEPT !.width = s0.width, !.height = s0.height,
                      !.x = Sub(right, s0.width)]
      c2 == IF Lt(c1.x, Zero)
            THEN [c1 EXCEPT !.x = Zero, !.width = right,
                            !.height = Div(right, aspectRatio)]
            ELSE c1
      hB == Sub(VH, ic.y)
  IN  IF Gt(Add(ic.y, c2.height), VH)
      THEN [c2 EXCEPT !.height = hB, !.width = Mul(hB, aspectRatio),
                      !.x = Sub(right, Mul(hB, aspectRatio))]
      ELSE c2

\* the "Corner handles with Alt" block
Corner(c, handle, ic, totalDx, totalDy, alt, VW, VH) ==
  IF ~(alt /\ handle \in CornerHandles) THEN c
  ELSE CASE handle = "se" -> CornerSE(c, ic, totalDx, totalDy, VW, VH)
         [] handle = "nw" -> CornerNW(c, ic, totalDx, totalDy, VW, VH)
         [] handle = "ne" -> CornerNE(c, ic, totalDx, totalDy, VW, VH)
         [] handle = "sw" -> CornerSW(c, ic, totalDx, totalDy, VW, VH)

\* the else branch of handleMouseMove: the four edge blocks in source order,
\* each on the result of the one before, then the corner block
ResizeCrop(c, handle, ic, totalDx, totalDy, alt, VW, VH) ==
  LET cE == IF Includes(handle, "e") THEN EdgeE(c, ic, totalDx, alt, VW, VH) ELSE c
      cW == IF Includes(handle, "w") THEN EdgeW(cE, ic, totalDx, alt, VW, VH) ELSE cE
      cS == IF Includes(handle, "s") THEN EdgeS(cW, ic, totalDy, alt, VW, VH) ELSE cW
      cN == IF Includes(handle, "n") THEN EdgeN(cS, ic, totalDy, alt, VW, VH) ELSE cS
  IN  Corner(cN, handle, ic, totalDx, totalDy, alt, VW, VH)

\* the 'move' branch without the clamp to the frame
MoveCrop_NoClamp(c, dx, dy, VW, VH) ==
  [c EXCEPT !.x = Add(c.x, dx), !.y = Add(c.y, dy)]

\* the 'move' branch of handleMouseMove
MoveCrop(c, dx, dy, VW, VH) ==
  [c EXCEPT !.x = RMax(Zero, RMin(Sub(VW, c.width), Add(c.x, dx))),
            !.y = RMax(Zero, RMin(Sub(VH, c.height), Add(c.y, dy)))]

-----------------------------------------------------------------------------
(* Bounds of the model and the inputs drawn by its actions                  *)

MaxLoads    == 2     \* handleVideoLoad calls in one run
MaxGestures == 2     \* crop gestures (mouse downs on the crop box) in one run
PointerStepX == 20   \* pointer columns are this many display pixels apart
PointerStepY == 15   \* pointer rows are this many display pixels apart
PointerCols  == 4    \* clientX in 0, PointerStepX, .., PointerCols * PointerStepX
PointerRows  == 2    \* clientY in 0, PointerStepY, .., PointerRows * PointerStepY

PointerXs == {i * PointerStepX : i \in 0..PointerCols}
PointerYs == {i * PointerStepY : i \in 0..PointerRows}

\* where a gesture's mouse down lands (only deltas from it matter to the handler)
DownPoint == [x |-> (PointerCols \div 2) * PointerStepX,
              y |-> (PointerRows \div 2) * PointerStepY]

\* A file the user can load, with what its <video> element will report:
\* its frame size, its true duration in seconds, and whether the container
\* states the duration from the start (recordings do not)
File(name, type, w, h, dur, stated) ==
  [name |-> name, type |-> type, videoWidth |-> w, videoHeight |-> h,
   duration |-> dur, statesDuration |-> stated]

ClipFile      == File("clip.mp4", "video/mp4", 200, 150, I(2), TRUE)
ShortFile     == File("short.mp4", "video/mp4", 200, 150, Q(2, 5), TRUE)
RecordingFile == File("gravacao_1.webm", "video/webm", 200, 150, I(1), FALSE)

Files == {ClipFile, ShortFile, RecordingFile}

\* file.type === 'video/webm' && file.name.startsWith('gravacao_')
isScreenRecording(file) == file = RecordingFile

\* widths at which the page may lay the <video> out (getBoundingClientRect)
DisplayWidths(file) == {file.videoWidth \div 2}

-----------------------------------------------------------------------------
(* Initial state: the page after the first render, nothing loaded           *)

Init ==
  /\ videoFile = Null
  /\ videoMeta = EmptyMeta
  /\ knownVideoDuration = Null
  /\ currentTime = Zero
  /\ isPlaying = FALSE
  /\ trimStart = Zero
  /\ trimEnd = Zero
  /\ speed = One
  /\ selectedRatio = Null
  /\ cropArea = EmptyCrop
  /\ video = Null
  /\ videoDimensions = EmptyDimensions
  /\ isDragging = FALSE
  /\ dragHandle = "null"
  /\ dragStart = [x |-> 0, y |-> 0]
  /\ initialCrop = Null
  /\ isAltPressed = FALSE
  /\ tlIsDragging = "null"
  /\ isExporting = FALSE
  /\ showOptions = FALSE
  /\ format = "mp4"
  /\ quality = "medium"
  /\ mountId = 0
  /\ loaded = FALSE
  /\ ffmpeg = 0
  /\ engines = << >>
  /\ calls = << >>
  /\ timers = {}
  /\ downloads = << >>
  /\ alerts = << >>
  /\ nExports = 0
  /\ thumbnails = << >>
  /\ jobs = << >>
  /\ gens = << >>
  /\ isRecording = FALSE
  /\ intervals = {}
  /\ recordingTimerRef = 0
  /\ recorders = << >>
  /\ globalMediaRecorderRef = 0
  /\ globalStreamRef = 0
  /\ globalIsActive = FALSE
  /\ globalChunksRef = 0
  /\ notifications = {}
  /\ pickers = 0
  /\ nLoads = 0
  /\ nGestures = 0

-----------------------------------------------------------------------------
(* App: loading and unloading a video                                       *)

\* state of the components that mount when videoFile becomes non-null
\* (VideoPreview, Timeline, ExportButton): their useState initial values
MountEditor ==
  /\ videoDimensions' = EmptyDimensions
  /\ isDragging' = FALSE
  /\ dragHandle' = "null"
  /\ dragStart' = [x |-> 0, y |-> 0]
  /\ initialCrop' = Null
  /\ isAltPressed' = FALSE
  /\ tlIsDragging' = "null"
  /\ isExporting' = FALSE
  /\ showOptions' = FALSE
  /\ format' = "mp4"
  /\ quality' = "medium"

\* generateThumbnails(videoFile, count) up to the return of its promise: a
\* detached <video> on the file, let duration = 0, no frame captured, the
\* setTimeout(..., 5000) fallback pending
generateThumbnails(file) ==
  [file |-> file, metadata |-> FALSE, elResolved |-> file.statesDuration,
   duration |-> Zero, loops |-> << >>, thumbnails |-> << >>,
   timer |-> TRUE, settled |-> "pending", result |-> << >>]

\* handleVideoLoad that drops the duration handed over with the file
handleVideoLoad_IgnoreKnown(file, knownDuration) ==
  /\ videoFile = Null
  /\ nLoads < MaxLoads
  /\ nLoads' = nLoads + 1
  /\ videoFile' = file
  /\ isPlaying' = FALSE
  /\ currentTime' = Zero
  /\ speed' = One
  /\ selectedRatio' = Null
  /\ knownVideoDuration' = Null
  /\ UNCHANGED <<videoMeta, trimStart, trimEnd>>
  /\ video' = [currentTime |-> Zero, paused |-> TRUE, resolved |-> file.statesDuration]
  /\ MountEditor
  /\ mountId' = nLoads + 1
  /\ thumbnails' = << >>
  /\ jobs' = IF isScreenRecording(file) THEN jobs ELSE Append(jobs, generateThumbnails(file))
  /\ UNCHANGED <<cropArea, loaded, ffmpeg, engines, calls, timers, downloads, alerts, nExports,
                 gens, recVars, nGestures>>

\* the body of handleVideoLoad(file, knownDuration), whoever calls it: the
\* upload handlers of VideoUpload or the recorder's onRecordingComplete
LoadVideo(file, knownDuration) ==
  /\ nLoads < MaxLoads
  /\ nLoads' = nLoads + 1
  /\ videoFile' = file
  /\ isPlaying' = FALSE
  /\ currentTime' = Zero
  /\ speed' = One
  /\ selectedRatio' = Null
  /\ IF knownDuration # Null /\ Gt(knownDuration, Zero)
     THEN /\ knownVideoDuration' = knownDuration
          /\ videoMeta' = [videoMeta EXCEPT !.duration = knownDuration]
          /\ trimStart' = Zero
          /\ trimEnd' = knownDuration
     ELSE /\ knownVideoDuration' = Null
          /\ UNCHANGED <<videoMeta, trimStart, trimEnd>>
  /\ video' = [currentTime |-> Zero, paused |-> TRUE, resolved |-> file.statesDuration]
  /\ MountEditor
  /\ mountId' = nLoads + 1
  /\ thumbnails' = << >>
  /\ jobs' = IF isScreenRecording(file) THEN jobs ELSE Append(jobs, generateThumbnails(file))
  /\ UNCHANGED <<cropArea, loaded, ffmpeg, engines, calls, timers, downloads, alerts, nExports,
                 gens, nGestures>>

\* handleVideoLoad(file, knownDuration) called for an uploaded file; VideoUpload
\* is rendered, and can call it, only while no file is loaded
handleVideoLoad(file, knownDuration) ==
  /\ videoFile = Null
  /\ LoadVideo(file, knownDuration)
  /\ UNCHANGED recVars

\* handleNewVideo: the "Novo" button, rendered while a file is loaded
handleNewVideo ==
  /\ videoFile # Null
  /\ videoFile' = Null
  /\ videoMeta' = EmptyMeta
  /\ cropArea' = EmptyCrop
  /\ currentTime' = Zero
  /\ speed' = One
  /\ trimStart' = Zero
  /\ trimEnd' = Zero
  /\ video' = Null
  /\ MountEditor
  /\ mountId' = 0
  /\ thumbnails' = << >>
  /\ UNCHANGED <<knownVideoDuration, isPlaying, selectedRatio, loaded, ffmpeg, engines, calls, timers,
                 downloads, alerts, nExports, jobs, gens, recVars, nLoads, nGestures>>

\* the <video> element's duration as JavaScript sees it: Infinity (here Null)
\* until the container's duration is resolved
VideoDuration == IF video.resolved THEN videoFile.duration ELSE Null

\* updateVideoDimensions (on loadedmetadata, canplay, loadeddata, durationchange)
\* with App.handleLoadedMetadata, which it calls
updateVideoDimensions(displayWidth) ==
  /\ video # Null
  /\ LET vw   == videoFile.videoWidth
         vh   == videoFile.videoHeight
         metaDuration == IF VideoDuration # Null /\ Gt(VideoDuration, Zero)
                         THEN VideoDuration ELSE Zero
         duration ==
           IF knownVideoDuration # Null /\ Gt(knownVideoDuration, Zero)
           THEN knownVideoDuration
           ELSE IF Gt(videoMeta.duration, Zero) THEN videoMeta.duration
           ELSE metaDuration
     IN  /\ videoDimensions' = [width |-> displayWidth,
                                height |-> (displayWidth * vh) \div vw,
                                videoWidth |-> vw, videoHeight |-> vh]
         /\ videoMeta' = [duration |-> duration, width |-> vw, height |-> vh]
         /\ cropArea' = Rect(Zero, Zero, I(vw), I(vh))
         /\ trimStart' = Zero
         /\ trimEnd' = duration
         /\ knownVideoDuration' = Null
  /\ UNCHANGED <<videoFile, currentTime, isPlaying, speed, selectedRatio, video,
                 isDragging, dragHandle, dragStart, initialCrop, isAltPressed,
                 tlVars, thumbVars, recVars, exportVars, nLoads, nGestures>>

-----------------------------------------------------------------------------
(* VideoPreview: the handlers                                               *)

\* the window keydown / keyup listeners that track the Alt key
handleKeyDown ==
  /\ video # Null
  /\ ~isAltPressed
  /\ isAltPressed' = TRUE
  /\ UNCHANGED <<appVars, videoDimensions, isDragging, dragHandle, dragStart,
                 initialCrop, tlVars, thumbVars, recVars, exportVars, nLoads, nGestures>>

handleKeyUp ==
  /\ video # Null
  /\ isAltPressed
  /\ isAltPressed' = FALSE
  /\ UNCHANGED <<appVars, videoDimensions, isDragging, dragHandle, dragStart,
                 initialCrop, tlVars, thumbVars, recVars, exportVars, nLoads, nGestures>>

\* handleMouseDown(e, handle): the crop box and its handles are rendered once
\* videoDimensions.width > 0; the pointer button is up before it goes down
handleMouseDown(handle) ==
  /\ video # Null
  /\ videoDimensions.width > 0
  /\ ~isDragging
  /\ nGestures < MaxGestures
  /\ nGestures' = nGestures + 1
  /\ isDragging' = TRUE
  /\ dragHandle' = handle
  /\ dragStart' = DownPoint
  /\ initialCrop' = cropArea
  /\ UNCHANGED <<appVars, videoDimensions, isAltPressed, tlVars, thumbVars, recVars, exportVars, nLoads>>

\* what handleMouseMove hands to onCropChange for a pointer at (clientX, clientY)
NewCrop(clientX, clientY) ==
  LET scale == getScale(videoDimensions)
      dx == Div(I(clientX - dragStart.x), scale)
      dy == Div(I(clientY - dragStart.y), scale)
      VW == I(videoDimensions.videoWidth)
      VH == I(videoDimensions.videoHeight)
  IN  IF dragHandle = "move"
      THEN MoveCrop(cropArea, dx, dy, VW, VH)
      ELSE ResizeCrop(cropArea, dragHandle, initialCrop, dx, dy, isAltPressed, VW, VH)

\* handleMouseMove(e), the window mousemove listener of a gesture
handleMouseMove(clientX, clientY) ==
  /\ video # Null
  /\ IF ~isDragging \/ dragHandle = "null" \/ initialCrop = Null
     THEN UNCHANGED <<cropArea, dragStart>>
     ELSE /\ cropArea' = NewCrop(clientX, clientY)
          /\ dragStart' = IF dragHandle = "move"
                          THEN [x |-> clientX, y |-> clientY]
                          ELSE dragStart
  /\ UNCHANGED <<videoFile, videoMeta, knownVideoDuration, currentTime, isPlaying,
                 trimStart, trimEnd, speed, selectedRatio, video,
                 videoDimensions, isDragging, dragHandle, initialCrop, isAltPressed,
                 tlVars, thumbVars, recVars, exportVars, nLoads, nGestures>>

\* handleMouseUp that leaves the handle and the snapshot in place
handleMouseUp_KeepsHandle ==
  /\ video # Null
  /\ isDragging
  /\ isDragging' = FALSE
  /\ UNCHANGED <<appVars, videoDimensions, dragStart, dragHandle, initialCrop,
                 isAltPressed, tlVars, thumbVars, recVars, exportVars, nLoads, nGestures>>

\* handleMouseUp, the window mouseup listener of a gesture
handleMouseUp ==
  /\ video # Null
  /\ isDragging
  /\ isDragging' = FALSE
  /\ dragHandle' = "null"
  /\ initialCrop' = Null
  /\ UNCHANGED <<appVars, videoDimensions, dragStart, isAltPressed, tlVars, thumbVars, recVars,
                 exportVars, nLoads, nGestures>>

-----------------------------------------------------------------------------
(* The crop overlay on a loaded clip                                        *)

NextCrop ==
  \/ handleVideoLoad(ClipFile, Null)
  \/ \E dw \in DisplayWidths(ClipFile) : updateVideoDimensions(dw)
  \/ handleKeyDown
  \/ handleKeyUp
  \/ \E h \in Handles : handleMouseDown(h)
  \/ \E px \in PointerXs, py \in PointerYs : handleMouseMove(px, py)
  \/ handleMouseUp

SpecCrop == Init /\ [][NextCrop]_vars

\* the crop rectangle lies in the source frame and is at least MIN_SIZE each way
CropInFrame(c, VW, VH) ==
  /\ Ge(c.x, Zero) /\ Ge(c.y, Zero)
  /\ Le(Add(c.x, c.width), I(VW))
  /\ Le(Add(c.y, c.height), I(VH))

CropMinSize(c) == Ge(c.width, I(MIN_SIZE)) /\ Ge(c.height, I(MIN_SIZE))

\* C1: after every pointer-move step of a crop gesture the committed rectangle
\* lies inside the source frame (x >= 0, y >= 0, x + width <= frameWidth,
\* y + height <= frameHeight) and is at least MIN_SIZE wide and high.  The
\* rectangle starts as the full frame, so this is the claim for every step
\* that starts from a rectangle satisfying it.
C1_CropInvariant ==
  videoDimensions.width > 0 =>
    /\ CropInFrame(cropArea, videoDimensions.videoWidth, videoDimensions.videoHeight)
    /\ CropMinSize(cropArea)

\* a pointer-move step of a resize gesture with the Alt key (the aspect lock)
\* held, from a gesture that started on a rectangle inside the frame
AltResizeStep ==
  /\ isDragging /\ isAltPressed /\ dragHandle \in ResizeHandles
  /\ initialCrop # Null
  /\ CropInFrame(initialCrop, videoDimensions.videoWidth, videoDimensions.videoHeight)
  /\ CropInFrame(cropArea, videoDimensions.videoWidth, videoDimensions.videoHeight)
  /\ UNCHANGED <<videoDimensions, isDragging, isAltPressed, dragHandle, initialCrop>>
  /\ cropArea' # cropArea

\* the rectangle has the width / height ratio of the gesture's initial rectangle
HasRatioOf(c, ic) == Mul(c.width, ic.height) = Mul(c.height, ic.width)

\* the rectangle lies against an edge of the frame
TouchesFrame(c, VW, VH) ==
  \/ c.x = Zero \/ c.y = Zero
  \/ Add(c.x, c.width) = I(VW) \/ Add(c.y, c.height) = I(VH)

\* C10: every rectangle committed by an aspect-locked resize step stays inside
\* the frame (bounds take precedence over the ratio) and, unless it was clamped
\* to a frame edge, keeps the ratio r of the gesture's initial rectangle.
C10_LockedResizeBoundsAndRatio ==
  [][AltResizeStep =>
       /\ CropInFrame(cropArea', videoDimensions.videoWidth, videoDimensions.videoHeight)
       /\ (~TouchesFrame(cropArea', videoDimensions.videoWidth,
                         videoDimensions.videoHeight)
             => HasRatioOf(cropArea', initialCrop))]_vars

-----------------------------------------------------------------------------
(* Timeline and the playback handlers of App                                *)

MIN_DURATION == Half   \* "Minimum 0.5 second selection"

TrackWidth == 4        \* rect.width of the timeline track, display pixels
TrackXs == (0 - 1)..(TrackWidth + 1)   \* clientX - rect.left of a pointer event

\* how far the playing <video> moves between two events the page handles
PlaySteps == {Half}

cropState == <<cropArea, selectedRatio, cropVars>>

\* getTimeFromPosition(clientX) for a track of width TrackWidth at rect.left = 0
getTimeFromPosition(clientX) ==
  IF Le(videoMeta.duration, Zero) THEN Zero
  ELSE LET percentage == RMax(Zero, RMin(One, Q(clientX, TrackWidth)))
       IN  Mul(percentage, videoMeta.duration)

\* the Timeline is rendered while videoFile && videoMeta.duration > 0
TimelineShown == videoFile # Null /\ Gt(videoMeta.duration, Zero)

\* handleSeek without the clamp to the trim range
handleSeek_NoClamp(time) ==
  IF video # Null
  THEN /\ video' = [video EXCEPT !.currentTime = time]
       /\ currentTime' = time
  ELSE UNCHANGED <<video, currentTime>>

\* App.handleSeek(time): clamp to the trim range, move the player and the cursor
handleSeek(time) ==
  LET clampedTime == RMax(trimStart, RMin(trimEnd, time))
  IN  IF video # Null
      THEN /\ video' = [video EXCEPT !.currentTime = clampedTime]
           /\ currentTime' = clampedTime
      ELSE UNCHANGED <<video, currentTime>>

\* App.handleTrimChange(start, end): the clamp reads the player's position
handleTrimChange(start, end) ==
  /\ trimStart' = start
  /\ trimEnd' = end
  /\ IF video # Null /\ Lt(video.currentTime, start)
     THEN /\ video' = [video EXCEPT !.currentTime = start]
          /\ currentTime' = start
     ELSE IF video # Null /\ Gt(video.currentTime, end)
     THEN /\ video' = [video EXCEPT !.currentTime = end]
          /\ currentTime' = end
     ELSE UNCHANGED <<video, currentTime>>

\* Timeline.handleMouseDown(e, type) on a trim handle or the playhead
tlHandleMouseDown(type) ==
  /\ TimelineShown
  /\ tlIsDragging = "null"
  /\ tlIsDragging' = type
  /\ UNCHANGED <<appVars, cropVars, exportVars, thumbVars, recVars, nLoads, nGestures>>

\* the start clamp without the minimum gap: Math.max(0, Math.min(trimEnd, time))
NewStart_NoGap(time) == RMax(Zero, RMin(trimEnd, time))

\* newStart = Math.max(0, Math.min(trimEnd - 0.5, time))
NewStart(time) == RMax(Zero, RMin(Sub(trimEnd, MIN_DURATION), time))

\* the end clamp without the minimum gap: Math.max(trimStart, Math.min(duration, time))
NewEnd_NoGap(time) == RMax(trimStart, RMin(videoMeta.duration, time))

\* newEnd = Math.max(trimStart + 0.5, Math.min(duration, time))
NewEnd(time) == RMax(Add(trimStart, MIN_DURATION), RMin(videoMeta.duration, time))

\* Timeline.handleMouseMove(e): the trim / playhead drag
tlHandleMouseMove(clientX) ==
  /\ TimelineShown
  /\ LET time == getTimeFromPosition(clientX)
     IN  CASE tlIsDragging = "start" -> handleTrimChange(NewStart(time), trimEnd)
           [] tlIsDragging = "end"   -> handleTrimChange(trimStart, NewEnd(time))
           [] tlIsDragging = "playhead" ->
                /\ handleSeek(RMax(Zero, RMin(videoMeta.duration, time)))
                /\ UNCHANGED <<trimStart, trimEnd>>
           [] OTHER ->
                UNCHANGED <<trimStart, trimEnd, video, currentTime>>
  /\ UNCHANGED <<videoFile, videoMeta, knownVideoDuration, isPlaying, speed,
                 cropState, tlVars, thumbVars, recVars, exportVars, nLoads, nGestures>>

\* Timeline.handleMouseUp
tlHandleMouseUp ==
  /\ TimelineShown
  /\ tlIsDragging # "null"
  /\ tlIsDragging' = "null"
  /\ UNCHANGED <<appVars, cropVars, exportVars, thumbVars, recVars, nLoads, nGestures>>

\* Timeline.handleTrackClick(e): a click seeks, it never trims
handleTrackClick(clientX) ==
  /\ TimelineShown
  /\ IF tlIsDragging # "null"
     THEN UNCHANGED <<video, currentTime>>
     ELSE handleSeek(RMax(Zero, RMin(videoMeta.duration, getTimeFromPosition(clientX))))
  /\ UNCHANGED <<videoFile, videoMeta, knownVideoDuration, isPlaying, trimStart,
                 trimEnd, speed, cropState, tlVars, thumbVars, recVars, exportVars, nLoads, nGestures>>

\* App.handlePlayPause (play button, click on the video, space bar)
handlePlayPause ==
  /\ video # Null
  /\ IF isPlaying
     THEN video' = [video EXCEPT !.paused = TRUE]
     ELSE video' = [video EXCEPT
                      !.currentTime = IF Ge(video.currentTime, trimEnd)
                                      THEN trimStart ELSE @,
                      !.paused = FALSE]
  /\ isPlaying' = ~isPlaying
  /\ UNCHANGED <<videoFile, videoMeta, knownVideoDuration, currentTime, trimStart,
                 trimEnd, speed, cropState, tlVars, thumbVars, recVars, exportVars, nLoads, nGestures>>

\* handleTimeUpdate that clamps at the trim end without stopping playback
handleTimeUpdate_NoStop ==
  /\ video # Null
  /\ LET time == video.currentTime
     IN  IF Ge(time, trimEnd)
         THEN /\ video' = [video EXCEPT !.currentTime = trimEnd]
              /\ currentTime' = trimEnd
              /\ UNCHANGED isPlaying
         ELSE IF Lt(time, trimStart)
         THEN /\ video' = [video EXCEPT !.currentTime = trimStart]
              /\ currentTime' = trimStart
              /\ UNCHANGED isPlaying
         ELSE /\ currentTime' = time
              /\ UNCHANGED <<video, isPlaying>>
  /\ UNCHANGED <<videoFile, videoMeta, knownVideoDuration, trimStart, trimEnd,
                 speed, cropState, tlVars, thumbVars, recVars, exportVars, nLoads, nGestures>>

\* App.handleTimeUpdate(time), called by VideoPreview.handleTimeUpdate with
\* videoRef.current.currentTime on the element's timeupdate event
handleTimeUpdate ==
  /\ video # Null
  /\ LET time == video.currentTime
     IN  IF Ge(time, trimEnd)
         THEN /\ video' = [video EXCEPT !.paused = TRUE, !.currentTime = trimEnd]
              /\ currentTime' = trimEnd
              /\ isPlaying' = FALSE
         ELSE IF Lt(time, trimStart)
         THEN /\ video' = [video EXCEPT !.currentTime = trimStart]
              /\ currentTime' = trimStart
              /\ UNCHANGED isPlaying
         ELSE /\ currentTime' = time
              /\ UNCHANGED <<video, isPlaying>>
  /\ UNCHANGED <<videoFile, videoMeta, knownVideoDuration, trimStart, trimEnd,
                 speed, cropState, tlVars, thumbVars, recVars, exportVars, nLoads, nGestures>>

\* the <video> element plays: its position advances, up to the end of the
\* media, where the element pauses itself
VideoPlays(step) ==
  /\ video # Null
  /\ ~video.paused
  /\ Lt(video.currentTime, videoFile.duration)
  /\ LET t == RMin(videoFile.duration, Add(video.currentTime, step))
     IN  video' = [video EXCEPT !.currentTime = t,
                                !.paused = (t = videoFile.duration)]
  /\ UNCHANGED <<videoFile, videoMeta, knownVideoDuration, currentTime, isPlaying,
                 trimStart, trimEnd, speed, cropState, tlVars, thumbVars, recVars, exportVars,
                 nLoads, nGestures>>

\* App's 'ended' listener: handleEnded
handleEnded ==
  /\ video # Null
  /\ video.paused /\ video.currentTime = videoFile.duration
  /\ isPlaying
  /\ isPlaying' = FALSE
  /\ UNCHANGED <<videoFile, videoMeta, knownVideoDuration, currentTime, trimStart,
                 trimEnd, speed, video, cropState, tlVars, thumbVars, recVars, exportVars, nLoads,
                 nGestures>>

\* updateDuration without the "duration is still 0" condition
updateDuration_Always ==
  /\ video # Null
  /\ VideoDuration # Null /\ Gt(VideoDuration, Zero)
  /\ videoMeta' = [videoMeta EXCEPT !.duration = VideoDuration]
  /\ trimEnd' = VideoDuration
  /\ UNCHANGED <<videoFile, knownVideoDuration, currentTime, isPlaying, trimStart,
                 speed, video, cropState, tlVars, thumbVars, recVars, exportVars, nLoads, nGestures>>

\* App's updateDuration listener (durationchange, canplaythrough, timeupdate)
updateDuration ==
  /\ video # Null
  /\ VideoDuration # Null /\ Gt(VideoDuration, Zero) /\ videoMeta.duration = Zero
  /\ videoMeta' = [videoMeta EXCEPT !.duration = VideoDuration]
  /\ trimEnd' = VideoDuration
  /\ UNCHANGED <<videoFile, knownVideoDuration, currentTime, isPlaying, trimStart,
                 speed, video, cropState, tlVars, thumbVars, recVars, exportVars, nLoads, nGestures>>

\* the element resolves the duration of a container that did not state it
VideoResolvesDuration ==
  /\ video # Null
  /\ ~video.resolved
  /\ video' = [video EXCEPT !.resolved = TRUE]
  /\ UNCHANGED <<videoFile, videoMeta, knownVideoDuration, currentTime, isPlaying,
                 trimStart, trimEnd, speed, cropState, tlVars, thumbVars, recVars, exportVars,
                 nLoads, nGestures>>

\* durations a capture can hand to handleVideoLoad with the recording
KnownDurations(file) == IF isScreenRecording(file) THEN {Null, file.duration} ELSE {Null}

NextTrim ==
  \/ \E f \in Files : \E k \in KnownDurations(f) : handleVideoLoad(f, k)
  \/ handleNewVideo
  \/ \E f \in Files : \E dw \in DisplayWidths(f) : updateVideoDimensions(dw)
  \/ VideoResolvesDuration
  \/ updateDuration
  \/ \E type \in {"start", "end", "playhead"} : tlHandleMouseDown(type)
  \/ \E x \in TrackXs : tlHandleMouseMove(x)
  \/ tlHandleMouseUp
  \/ \E x \in TrackXs : handleTrackClick(x)
  \/ handlePlayPause
  \/ handleTimeUpdate
  \/ \E step \in PlaySteps : VideoPlays(step)
  \/ handleEnded

SpecTrim == Init /\ [][NextTrim]_vars


\* a pointer move of a start-handle or end-handle drag
TrimDragStep ==
  /\ tlIsDragging \in {"start", "end"}
  /\ \E x \in TrackXs : tlHandleMouseMove(x)

\* 0 <= start, end <= duration, end - start >= MIN_DURATION
TrimOK(start, end, duration) ==
  /\ Le(Zero, start)
  /\ Le(end, duration)
  /\ Ge(Sub(end, start), MIN_DURATION)

CursorInTrim == Le(trimStart, currentTime) /\ Le(currentTime, trimEnd)

\* a playback time update, a seek request or a trim change is handled
CursorHandledStep ==
  \/ handleTimeUpdate
  \/ \E x \in TrackXs : handleTrackClick(x)
  \/ \E x \in TrackXs : tlHandleMouseMove(x)

\* C3: with a clip loaded, once a time update, a seek or a trim change has been
\* handled the cursor satisfies trimStart <= currentTime <= trimEnd.
C3_CursorInTrim ==
  [][CursorHandledStep => CursorInTrim']_vars



(***************************************************************************)
(* utils/ffmpeg.js: processVideo builds the engine command.  A number that *)
(* the code writes with String(..) or a template literal is carried as the *)
(* number its decimal text denotes; toFixed(4) and Math.round are applied  *)
(* as the code applies them.                                               *)
(***************************************************************************)

\* Quality presets for video
VIDEO_QUALITY ==
  [low    |-> [crf |-> 28, preset |-> "fast"],
   medium |-> [crf |-> 23, preset |-> "medium"],
   high   |-> [crf |-> 18, preset |-> "slow"]]

\* Quality presets for GIF (fps and scale)
GIF_QUALITY ==
  [low    |-> [fps |-> 10, scale |-> 320],
   medium |-> [fps |-> 15, scale |-> 480],
   high   |-> [fps |-> 20, scale |-> 640]]

Qualities == {"low", "medium", "high"}

Formats == {"mp4", "gif"}

\* one filter of a chain: name=args, expr distinguishes scale=W from scale='min(W,iw)'
Filter(name, args, expr) == [name |-> name, args |-> args, expr |-> expr]

\* one token of the command: an option with its value, or the output name
Arg(opt, val) == [opt |-> opt, val |-> val]

\* JavaScript truthiness of a number or null
Truthy(v) == v # Null /\ v # Zero

\* x.toFixed(4): x rounded to four decimals
toFixed4(a) == Q(Round(Mul(a, I(10000))), 10000)

\* Math.ceil(Math.log(a) / Math.log(2)) for a >= 1: the least k with 2^k >= a
RECURSIVE CeilLog2From(_, _, _)
CeilLog2From(a, k, pow) ==
  IF Ge(I(pow), a) THEN k ELSE CeilLog2From(a, k + 1, 2 * pow)

CeilLog2(a) == CeilLog2From(a, 0, 1)

\* every stage of the fast loop at the maximum ratio, whatever remains
thisSpeedFast_Always2(remainingSpeed) == Two

\* the stage of the loop for speed > 2: Math.min(2.0, remainingSpeed)
thisSpeedFast(remainingSpeed) == RMin(Two, remainingSpeed)

\* the stage of the loop for speed < 0.5: Math.max(0.5, remainingSpeed)
thisSpeedSlow(remainingSpeed) == RMax(Half, remainingSpeed)

\* for (i < atempoCount) { push atempo=thisSpeed; remainingSpeed /= thisSpeed }
RECURSIVE atempoFiltersFast(_, _)
atempoFiltersFast(atempoCount, remainingSpeed) ==
  IF atempoCount = 0 THEN << >>
  ELSE LET thisSpeed == thisSpeedFast(remainingSpeed)
       IN  <<Filter("atempo", <<thisSpeed>>, "")>>
             \o atempoFiltersFast(atempoCount - 1, Div(remainingSpeed, thisSpeed))

RECURSIVE atempoFiltersSlow(_, _)
atempoFiltersSlow(atempoCount, remainingSpeed) ==
  IF atempoCount = 0 THEN << >>
  ELSE LET thisSpeed == thisSpeedSlow(remainingSpeed)
       IN  <<Filter("atempo", <<thisSpeed>>, "")>>
             \o atempoFiltersSlow(atempoCount - 1, Div(remainingSpeed, thisSpeed))

\* Audio speed adjustment (only for video, not GIF)
audioFilter(spd) ==
  IF Ge(spd, Half) /\ Le(spd, Two) THEN <<Filter("atempo", <<spd>>, "")>>
  ELSE IF Gt(spd, Two) THEN atempoFiltersFast(CeilLog2(spd), spd)
  ELSE atempoFiltersSlow(CeilLog2(Div(One, spd)), spd)

\* Speed: setpts=(1/speed).toFixed(4)*PTS
speedFilters(o) ==
  IF o.speed # One
    THEN <<Filter("setpts", <<toFixed4(Div(One, o.speed))>>, "")>>
    ELSE << >>

\* Crop: crop=round(w):round(h):round(x):round(y)
cropFilters(o) ==
  IF Truthy(o.cropWidth) /\ Truthy(o.cropHeight)
    THEN <<Filter("crop", <<I(Round(o.cropWidth)), I(Round(o.cropHeight)),
                            I(Round(o.cropX)), I(Round(o.cropY))>>, "")>>
    ELSE << >>

\* GIF: fps, then scale to the preset's maximum width
gifFilters(o) ==
  LET gifSettings == IF o.quality \in DOMAIN GIF_QUALITY
                       THEN GIF_QUALITY[o.quality] ELSE GIF_QUALITY.medium
  IN  <<Filter("fps", <<I(gifSettings.fps)>>, "")>>
      \o (IF Truthy(o.cropWidth) /\ Gt(o.cropWidth, I(gifSettings.scale))
            THEN <<Filter("scale", <<I(gifSettings.scale)>>, "W")>>
          ELSE IF ~Truthy(o.cropWidth)
            THEN <<Filter("scale", <<I(gifSettings.scale)>>, "min(W,iw)")>>
          ELSE << >>)

\* the palette tail of the GIF filter graph
paletteFilters ==
  <<Filter("split", << >>, ""), Filter("palettegen", << >>, "stats_mode=diff"),
    Filter("paletteuse", << >>, "dither=bayer:bayer_scale=5")>>

\* the crop pushed before the speed filter
videoFilters_CropFirst(o) ==
  cropFilters(o) \o speedFilters(o)
    \o (IF o.format = "gif" THEN gifFilters(o) ELSE << >>)

\* videoFilters as they stand when the command is assembled
videoFilters(o) ==
  speedFilters(o) \o cropFilters(o)
    \o (IF o.format = "gif" THEN gifFilters(o) ELSE << >>)

\* audioFilters as they stand when the command is assembled
audioFilters(o) ==
  IF o.speed # One /\ o.format # "gif" THEN audioFilter(o.speed) ELSE << >>

\* Trim: -ss and -t pushed after -i
trimArgs(o) ==
  (IF Gt(o.trimStart, Zero) THEN <<Arg("-ss", o.trimStart)>> ELSE << >>)
  \o (IF o.trimEnd # Null THEN <<Arg("-t", Sub(o.trimEnd, o.trimStart))>> ELSE << >>)

\* the GIF filter graph carrying the tempo chain as an audio chain
filterArgs_GifWithAudio(o) ==
  LET vf == videoFilters(o)
      af == IF o.speed # One THEN audioFilter(o.speed) ELSE << >>
  IN  IF o.format = "gif"
        THEN <<Arg("-filter_complex", [v |-> vf \o paletteFilters, a |-> af])>>
      ELSE IF Len(vf) > 0 /\ Len(af) > 0
        THEN <<Arg("-filter_complex", [v |-> vf, a |-> af]),
               Arg("-map", "[v]"), Arg("-map", "[a]")>>
      ELSE IF Len(vf) > 0 THEN <<Arg("-vf", [v |-> vf, a |-> << >>])>>
      ELSE IF Len(af) > 0 THEN <<Arg("-af", [v |-> << >>, a |-> af])>>
      ELSE << >>

\* the filter options of the command
filterArgs(o) ==
  LET vf == videoFilters(o)
      af == audioFilters(o)
  IN  IF o.format = "gif"
        THEN <<Arg("-filter_complex", [v |-> vf \o paletteFilters, a |-> << >>])>>
      ELSE IF Len(vf) > 0 /\ Len(af) > 0
        THEN <<Arg("-filter_complex", [v |-> vf, a |-> af]),
               Arg("-map", "[v]"), Arg("-map", "[a]")>>
      ELSE IF Len(vf) > 0 THEN <<Arg("-vf", [v |-> vf, a |-> << >>])>>
      ELSE IF Len(af) > 0 THEN <<Arg("-af", [v |-> << >>, a |-> af])>>
      ELSE << >>

\* the output settings and the output name
outputArgs(o) ==
  IF o.format = "gif"
    THEN <<Arg("-loop", "0"), Arg("", "output.gif")>>
    ELSE LET videoSettings == IF o.quality \in DOMAIN VIDEO_QUALITY
                                THEN VIDEO_QUALITY[o.quality]
                                ELSE VIDEO_QUALITY.medium
         IN  <<Arg("-c:v", "libx264"), Arg("-preset", videoSettings.preset),
               Arg("-crf", videoSettings.crf), Arg("-c:a", "aac"),
               Arg("-b:a", "128k"), Arg("", "output.mp4")>>

\* getExtension(filename): '.' + the text after the last dot, lower-cased
getExtension(filename) ==
  CASE filename = "clip.mp4"        -> ".mp4"
    [] filename = "short.mp4"       -> ".mp4"
    [] filename = "gravacao_1.webm" -> ".webm"

\* a command whose input name counts the invocations made so far
buildArgs_Counted(file, o) ==
  <<Arg("-i", <<"input", Len(calls), getExtension(file.name)>>)>>
    \o trimArgs(o) \o filterArgs(o) \o outputArgs(o)

\* the args handed to ff.exec
buildArgs(file, o) ==
  <<Arg("-i", <<"input", getExtension(file.name)>>)>>
    \o trimArgs(o) \o filterArgs(o) \o outputArgs(o)


-----------------------------------------------------------------------------
(* utils/ffmpeg.js: one processVideo invocation, await by await             *)

MaxExports == 2     \* handleExport invocations in one run

\* processVideo(file, options, onProgress) is entered: the options are
\* destructured at once; the caller is the ExportButton instance that awaits
\* it (0: a direct call of the exported function).  initFFmpeg(onProgress)
\* runs in the same turn up to its first await: with `loaded` set it returns
\* the module's instance (ff); otherwise it creates an instance, stores it in
\* the module variable, registers the progress listener that forwards to this
\* invocation's onProgress, and starts loading it (loading).  received is
\* what this invocation's onProgress has been handed while it is in flight,
\* emitted the last progress the engine reported for its exec.
processVideo(file, options, caller) ==
  /\ calls' = Append(calls,
                [caller |-> caller, file |-> file, options |-> options,
                 args |-> << >>, pc |-> "initFFmpeg",
                 loading |-> IF loaded THEN 0 ELSE Len(engines) + 1,
                 ff |-> IF loaded THEN ffmpeg ELSE 0,
                 received |-> << >>, emitted |-> Zero])
  /\ IF loaded
       THEN UNCHANGED <<ffmpeg, engines>>
       ELSE /\ ffmpeg' = Len(engines) + 1
            /\ engines' = Append(engines, [listener |-> Len(calls) + 1,
                                           loaded |-> FALSE, files |-> {}])

\* 'input' + getExtension(file.name) and the output name, as names of files
\* in the instance's virtual filesystem
inputName(file) == <<"input", getExtension(file.name)>>
outputName(o) == IF o.format = "gif" THEN <<"output", ".gif">> ELSE <<"output", ".mp4">>

\* the invocation has neither returned nor thrown
InFlight(call) == call.pc \notin {"resolved", "rejected"}

\* the catch block without its setIsExporting(false)
isExportingAfterCatch_Kept(call) == isExporting

\* the catch block alerting twice
alertsAfterCatch_Twice(i) == Append(Append(alerts, i), i)

\* catch (error) of handleExport: setIsExporting(false) on its own instance
isExportingAfterCatch(call) ==
  IF call.caller = mountId THEN FALSE ELSE isExporting

\* catch (error) of handleExport: alert('Erro ao exportar: ' + error.message)
alertsAfterCatch(i) == Append(alerts, i)

\* an await of processVideo throws: the promise rejects and the catch block of
\* the awaiting handleExport runs in the same turn
Rejects(i) ==
  /\ calls' = [calls EXCEPT ![i].pc = "rejected"]
  /\ IF calls[i].caller # 0
       THEN /\ isExporting' = isExportingAfterCatch(calls[i])
            /\ alerts' = alertsAfterCatch(i)
       ELSE UNCHANGED <<isExporting, alerts>>
  /\ UNCHANGED <<timers, downloads>>

\* processVideo returns the blob: handleExport offers it for download
\* (a.click()) and arms setTimeout(() => setIsExporting(false), 1000)
Resolves(i) ==
  /\ calls' = [calls EXCEPT ![i].pc = "resolved"]
  /\ IF calls[i].caller # 0
       THEN /\ downloads' = Append(downloads, i)
            /\ timers' = timers \cup {[call |-> i, caller |-> calls[i].caller]}
       ELSE UNCHANGED <<downloads, timers>>
  /\ UNCHANGED <<isExporting, alerts>>

engineFrame ==
  UNCHANGED <<appVars, cropVars, tlVars, thumbVars, recVars, showOptions, format, quality, mountId,
              nExports, nLoads, nGestures>>

\* await initFFmpeg(onProgress) returns: at once when loaded, else after
\* ffmpeg.load() resolved
initFFmpegReturns(i) ==
  /\ i \in DOMAIN calls /\ calls[i].pc = "initFFmpeg"
  /\ IF calls[i].loading # 0
       THEN \* ffmpeg.load() of the own instance resolved:
            \* loaded = true; return ffmpeg
            /\ loaded' = TRUE
            /\ engines' = [engines EXCEPT ![calls[i].loading].loaded = TRUE]
            /\ calls' = [calls EXCEPT ![i].pc = "writeFile", ![i].ff = ffmpeg]
       ELSE /\ calls' = [calls EXCEPT ![i].pc = "writeFile"]
            /\ UNCHANGED <<loaded, engines>>
  /\ UNCHANGED <<ffmpeg, isExporting, alerts, timers, downloads>>
  /\ engineFrame

\* ffmpeg.load() (or toBlobURL) rejects: initFFmpeg throws without setting loaded
initFFmpegThrows(i) ==
  /\ i \in DOMAIN calls /\ calls[i].pc = "initFFmpeg"
  /\ calls[i].loading # 0
  /\ Rejects(i)
  /\ UNCHANGED <<loaded, ffmpeg, engines>>
  /\ engineFrame

\* await ff.writeFile(...) returns; the command is built up to ff.exec(args)
writeFileReturns(i) ==
  /\ i \in DOMAIN calls /\ calls[i].pc = "writeFile"
  /\ engines[calls[i].ff].loaded     \* an instance serves calls once it is loaded
  /\ calls' = [calls EXCEPT ![i].pc = "exec",
                            ![i].args = buildArgs(calls[i].file, calls[i].options)]
  /\ engines' = [engines EXCEPT ![calls[i].ff].files = @ \cup {inputName(calls[i].file)}]
  /\ UNCHANGED <<loaded, ffmpeg, isExporting, alerts, timers, downloads>>
  /\ engineFrame

\* await ff.exec(args) returns, the output written
execReturns(i) ==
  /\ i \in DOMAIN calls /\ calls[i].pc = "exec"
  /\ calls' = [calls EXCEPT ![i].pc = "readFile"]
  /\ engines' = [engines EXCEPT ![calls[i].ff].files = @ \cup {outputName(calls[i].options)}]
  /\ UNCHANGED <<loaded, ffmpeg, isExporting, alerts, timers, downloads>>
  /\ engineFrame

\* ff.readFile and the two ff.deleteFile return: the blob is returned
readFileReturns(i) ==
  /\ i \in DOMAIN calls /\ calls[i].pc = "readFile"
  /\ Resolves(i)
  /\ engines' = [engines EXCEPT ![calls[i].ff].files =
                   @ \ {inputName(calls[i].file), outputName(calls[i].options)}]
  /\ UNCHANGED <<loaded, ffmpeg>>
  /\ engineFrame

\* ff.writeFile, ff.exec, ff.readFile or ff.deleteFile throws (unsupported
\* input, invalid pipeline, no output written)
engineThrows(i) ==
  /\ i \in DOMAIN calls /\ calls[i].pc \in {"writeFile", "exec", "readFile"}
  /\ Rejects(i)
  /\ UNCHANGED <<loaded, ffmpeg, engines>>
  /\ engineFrame

\* the engine call of invocation i returns or throws
EngineStep(i) ==
  \/ initFFmpegReturns(i)
  \/ initFFmpegThrows(i)
  \/ writeFileReturns(i)
  \/ execReturns(i)
  \/ readFileReturns(i)
  \/ engineThrows(i)


-----------------------------------------------------------------------------
(* processVideo called directly, over a range of options                    *)

MaxSpeedQuarters == 36    \* speeds n/4 up to 9x
MaxSlowdown      == 10    \* speeds 1/n down to 0.1x

CompileSpeeds ==
  {Q(n, 4) : n \in 1..MaxSpeedQuarters} \cup {Q(1, n) : n \in 3..MaxSlowdown}

\* no crop (the defaults), the whole 200x150 frame, a fractional 800-wide crop
CompileCrops ==
  {[x |-> Zero, y |-> Zero, width |-> Null, height |-> Null],
   Rect(Zero, Zero, I(200), I(150)),
   Rect(Q(21, 2), Q(81, 4), Q(1601, 2), I(300))}

\* no trim (the defaults), the whole clip, an inner second
CompileTrims == {<<Zero, Null>>, <<Zero, I(2)>>, <<Half, Q(3, 2)>>}

CompileOptions ==
  {[cropX |-> c.x, cropY |-> c.y, cropWidth |-> c.width, cropHeight |-> c.height,
    speed |-> s, trimStart |-> t[1], trimEnd |-> t[2], format |-> f, quality |-> q] :
     c \in CompileCrops, s \in CompileSpeeds, t \in CompileTrims,
     f \in Formats, q \in Qualities}

\* a caller other than ExportButton calls processVideo(file, options)
processVideoCall(file, options) ==
  /\ calls = << >>
  /\ processVideo(file, options, 0)
  /\ UNCHANGED <<loaded, isExporting, alerts, timers, downloads>>
  /\ engineFrame

NextCompile ==
  \/ \E o \in CompileOptions : processVideoCall(ClipFile, o)
  \/ \E i \in DOMAIN calls : EngineStep(i)

SpecCompile == Init /\ [][NextCompile]_vars

\* the commands built so far
BuiltCalls == {i \in DOMAIN calls : calls[i].args # << >>}

\* the video chain and the audio chain of a command
FilterArg(args) ==
  LET at == {k \in DOMAIN args : args[k].opt \in {"-filter_complex", "-vf", "-af"}}
  IN  IF at = {} THEN [v |-> << >>, a |-> << >>] ELSE args[CHOOSE k \in at : TRUE].val

RECURSIVE StageProduct(_)
StageProduct(chain) ==
  IF chain = << >> THEN One
  ELSE Mul(chain[1].args[1], StageProduct(Tail(chain)))

\* log2 of the speed-up (speed > 2) or of the slow-down (speed < 0.5), rounded up
ExpectedStages(spd) ==
  IF Gt(spd, Two) THEN CeilLog2(spd) ELSE CeilLog2(Div(One, spd))

\* C4: for every speed outside [0.5, 2.0] with container (mp4) output the
\* audio tempo chain has exactly ceil(log2(speed)) (resp. ceil(log2(1/speed)))
\* stages, every stage ratio lies in [0.5, 2.0], and the product of the stage
\* ratios equals the requested speed.
C4_TempoChain ==
  \A i \in BuiltCalls :
    LET o     == calls[i].options
        chain == FilterArg(calls[i].args).a
    IN  (o.format = "mp4" /\ (Gt(o.speed, Two) \/ Lt(o.speed, Half)))
          => /\ Len(chain) = ExpectedStages(o.speed)
             /\ \A k \in DOMAIN chain :
                  /\ chain[k].name = "atempo"
                  /\ Ge(chain[k].args[1], Half) /\ Le(chain[k].args[1], Two)
             /\ StageProduct(chain) = o.speed

\* speed 5 to mp4 was compiled: three stages 2.0, 2.0, 1.25
C4_Witness ==
  \E i \in BuiltCalls :
    /\ calls[i].options.format = "mp4" /\ calls[i].options.speed = I(5)
    /\ LET chain == FilterArg(calls[i].args).a
       IN  /\ Len(chain) = 3
           /\ chain[1].args[1] = Two /\ chain[2].args[1] = Two
           /\ chain[3].args[1] = Q(5, 4)


\* position of a stage in the fixed order of the video chain
StageRank(name) ==
  CASE name = "setpts"     -> 1
    [] name = "crop"       -> 2
    [] name = "fps"        -> 3
    [] name = "scale"      -> 3
    [] name = "split"      -> 4
    [] name = "palettegen" -> 5
    [] name = "paletteuse" -> 6

StageNames(chain) == {chain[k].name : k \in DOMAIN chain}

\* C5: in every compiled pipeline the video stages appear in the order speed
\* (setpts), crop, frame rate and scaling, palette generation followed by
\* palette application; no later stage precedes an earlier one.
C5_StageOrder ==
  \A i \in BuiltCalls :
    LET chain == FilterArg(calls[i].args).v
    IN  /\ \A j, k \in DOMAIN chain :
             j < k => StageRank(chain[j].name) <= StageRank(chain[k].name)
        /\ \A j, k \in DOMAIN chain :
             (j < k /\ StageRank(chain[j].name) = StageRank(chain[k].name))
               => chain[j].name # chain[k].name
        /\ \A k \in DOMAIN chain :
             chain[k].name = "palettegen"
               => k < Len(chain) /\ chain[k + 1].name = "paletteuse"

\* a GIF with a speed change, a crop and a down-scale was compiled
C5_Witness ==
  \E i \in BuiltCalls :
    StageNames(FilterArg(calls[i].args).v)
      = {"setpts", "crop", "fps", "scale", "split", "palettegen", "paletteuse"}

\* the options of a command: those after -i are output options
OptionsAt(args, opt) == {k \in DOMAIN args : args[k].opt = opt}

OptionValue(args, opt, default) ==
  IF OptionsAt(args, opt) = {} THEN default
  ELSE args[CHOOSE k \in OptionsAt(args, opt) : TRUE].val

IsOutputOption(args, opt) ==
  \A k \in OptionsAt(args, opt) : \A in \in OptionsAt(args, "-i") : k > in

\* the factor by which the setpts stage multiplies timestamps
SetptsFactor(args) ==
  LET chain == FilterArg(args).v
      at    == {k \in DOMAIN chain : chain[k].name = "setpts"}
  IN  IF at = {} THEN One ELSE chain[CHOOSE k \in at : TRUE].args[1]

\* what ff.exec(args) encodes of a source of the given duration.  -ss and -t
\* given as output options (after -i) cut the stream that leaves the filter
\* chain: position p of the output is source time p / factor.  Given before
\* -i they cut the source itself.
execSelects(args, duration) ==
  LET ss     == OptionValue(args, "-ss", Zero)
      factor == SetptsFactor(args)
      whole  == Mul(duration, factor)
      t      == OptionValue(args, "-t", whole)
  IN  IF IsOutputOption(args, "-ss") /\ IsOutputOption(args, "-t")
        THEN LET from == RMin(ss, whole)
                 to   == RMin(Add(ss, t), whole)
             IN  [from |-> Div(from, factor), to |-> Div(to, factor),
                  length |-> Sub(to, from)]
        ELSE LET from == RMin(ss, duration)
                 to   == RMin(Add(ss, t), duration)
             IN  [from |-> from, to |-> to, length |-> Mul(Sub(to, from), factor)]

\* C6: the trim is applied to the source before the speed stage: for every
\* speed the -ss / -t handed to the engine select exactly the source interval
\* [start, end], and the output lasts (end - start) / speed.
C6_TrimBeforeSpeed ==
  \A i \in BuiltCalls :
    LET o   == calls[i].options
        out == execSelects(calls[i].args, calls[i].file.duration)
    IN  o.trimEnd # Null
          => /\ out.from = o.trimStart
             /\ out.to = o.trimEnd
             /\ out.length = Div(Sub(o.trimEnd, o.trimStart), o.speed)


-----------------------------------------------------------------------------
(* ExportButton (src/unnamed/part_001) and SpeedControls (part_003)         *)

\* the slider: min 0.25, max 4, step 0.25
SliderSpeeds == {Q(n, 4) : n \in 1..16}

\* the slider positions tried while exporting
ExportSpeeds == {I(2)}

\* the quality buttons pressed while exporting
ExportQualities == {"high"}

\* SpeedControls.handleSliderChange: onSpeedChange(parseFloat(e.target.value))
handleSliderChange(value) ==
  /\ videoFile # Null
  /\ value \in SliderSpeeds
  /\ speed' = value
  /\ UNCHANGED <<videoFile, videoMeta, knownVideoDuration, currentTime, isPlaying,
                 trimStart, trimEnd, selectedRatio, cropArea, video, cropVars,
                 tlVars, thumbVars, recVars, exportVars, nLoads, nGestures>>

\* the main button: onClick={() => setShowOptions(!showOptions)},
\* disabled={disabled || isExporting}
toggleOptions ==
  /\ mountId # 0 /\ ~isExporting
  /\ showOptions' = ~showOptions
  /\ UNCHANGED <<appVars, cropVars, tlVars, thumbVars, recVars, isExporting, format, quality, mountId,
                 loaded, ffmpeg, engines, calls, timers, downloads, alerts, nExports, nLoads,
                 nGestures>>

\* the format buttons of the options panel (showOptions && !isExporting)
setFormat(f) ==
  /\ mountId # 0 /\ showOptions /\ ~isExporting
  /\ format' = f
  /\ UNCHANGED <<appVars, cropVars, tlVars, thumbVars, recVars, isExporting, showOptions, quality,
                 mountId, loaded, ffmpeg, engines, calls, timers, downloads, alerts, nExports,
                 nLoads, nGestures>>

\* the quality buttons of the options panel
setQuality(q) ==
  /\ mountId # 0 /\ showOptions /\ ~isExporting
  /\ quality' = q
  /\ UNCHANGED <<appVars, cropVars, tlVars, thumbVars, recVars, isExporting, showOptions, format,
                 mountId, loaded, ffmpeg, engines, calls, timers, downloads, alerts, nExports,
                 nLoads, nGestures>>

\* the guard of handleExport without the in-progress test
handleExportReturnsEarly_NoFlag == videoFile = Null

\* if (!videoFile || isExporting) return;
handleExportReturnsEarly == videoFile = Null \/ isExporting

\* the options handleExport passes to processVideo
exportOptions ==
  [cropX |-> cropArea.x, cropY |-> cropArea.y, cropWidth |-> cropArea.width,
   cropHeight |-> cropArea.height, speed |-> speed, trimStart |-> trimStart,
   trimEnd |-> trimEnd, format |-> format, quality |-> quality]

\* ExportButton.handleExport is invoked, up to its first await
handleExport ==
  /\ mountId # 0
  /\ nExports < MaxExports
  /\ nExports' = nExports + 1
  /\ IF handleExportReturnsEarly
       THEN UNCHANGED <<showOptions, isExporting, calls, ffmpeg, engines>>
       ELSE /\ showOptions' = FALSE
            /\ isExporting' = TRUE
            /\ processVideo(videoFile, exportOptions, mountId)
  /\ UNCHANGED <<appVars, cropVars, tlVars, thumbVars, recVars, format, quality, mountId, loaded,
                 timers, downloads, alerts, nLoads, nGestures>>

\* setTimeout callback of the success path: setIsExporting(false) on its instance
isExportingAfterTimeout(timer) ==
  IF timer.caller = mountId THEN FALSE ELSE isExporting

\* the timers handleExport can arm
Timers == {[call |-> i, caller |-> m] : i \in 1..MaxExports, m \in 1..MaxLoads}

\* a pending setTimeout(..., 1000) callback runs
timerFires(timer) ==
  /\ timer \in timers
  /\ timers' = timers \ {timer}
  /\ isExporting' = isExportingAfterTimeout(timer)
  /\ UNCHANGED <<appVars, cropVars, tlVars, thumbVars, recVars, showOptions, format, quality, mountId,
                 loaded, ffmpeg, engines, calls, downloads, alerts, nExports, nLoads, nGestures>>

NextExport ==
  \/ handleVideoLoad(ClipFile, Null)
  \/ handleNewVideo
  \/ \E dw \in DisplayWidths(ClipFile) : updateVideoDimensions(dw)
  \/ \E v \in ExportSpeeds : handleSliderChange(v)
  \/ toggleOptions
  \/ \E f \in Formats : setFormat(f)
  \/ \E q \in ExportQualities : setQuality(q)
  \/ handleExport
  \/ \E i \in 1..MaxExports : EngineStep(i)
  \/ \E t \in Timers : timerFires(t)

SpecExport == Init /\ [][NextExport]_vars

\* loading, exporting and unloading only
NextExportFlow ==
  \/ handleVideoLoad(ClipFile, Null)
  \/ handleNewVideo
  \/ handleExport
  \/ \E i \in 1..MaxExports : EngineStep(i)
  \/ \E t \in Timers : timerFires(t)

\* the engine call returns or throws, and pending timeouts run
SpecExportFair ==
  /\ Init /\ [][NextExportFlow]_vars
  /\ WF_vars(\E i \in 1..MaxExports : EngineStep(i))
  /\ WF_vars(\E t \in Timers : timerFires(t))


\* an export of the mounted ExportButton is in flight
ActiveExport ==
  \E i \in DOMAIN calls : calls[i].caller = mountId /\ InFlight(calls[i])

\* no two invocations of one ExportButton instance are in flight together
OneInFlight ==
  \A i, j \in DOMAIN calls :
    (i # j /\ calls[i].caller # 0 /\ calls[i].caller = calls[j].caller)
      => ~(InFlight(calls[i]) /\ InFlight(calls[j]))

\* C7: at most one export is in flight per session, and an export request
\* issued while one is active starts no engine invocation and queues nothing.
C7_OneExportInFlight ==
  /\ []OneInFlight
  /\ [][(nExports' # nExports /\ ActiveExport)
          => (calls' = calls /\ timers' = timers)]_vars

\* a second request arrived while the first export of this session was in flight
C7_Witness ==
  /\ Len(calls) = 1 /\ calls[1].caller = mountId /\ InFlight(calls[1])
  /\ nExports = 2

\* C8: every export attempt eventually leaves the export-in-progress flag
\* cleared, on the success path and on every failure path, provided the
\* engine call returns or throws.
C8_FlagEventuallyCleared == isExporting ~> ~isExporting

\* one export of this session succeeded, one failed, and the flag is clear
C8_Witness ==
  /\ \E i, j \in DOMAIN calls :
       /\ calls[i].caller = mountId /\ calls[i].pc = "resolved"
       /\ calls[j].caller = mountId /\ calls[j].pc = "rejected"
  /\ timers = {}
  /\ ~isExporting

\* number of entries i in a log
Count(log, i) == Cardinality({k \in DOMAIN log : log[k] = i})

\* invocation i of an ExportButton has failed
Failed(i) == calls[i].caller # 0 /\ calls[i].pc = "rejected"

\* the edit session: crop rectangle, aspect lock, trim interval, speed,
\* format and quality
editSession ==
  <<cropArea, selectedRatio, trimStart, trimEnd, speed, format, quality>>

\* C9: a failed export leaves the edit session unchanged, offers no output
\* file for download, and reports the failure exactly once.
C9_FailedExport ==
  /\ [](\A i \in DOMAIN calls :
          Failed(i) => Count(alerts, i) = 1 /\ Count(downloads, i) = 0)
  /\ [][(\E i \in DOMAIN calls : ~Failed(i) /\ Failed(i)')
          => (editSession' = editSession /\ downloads' = downloads)]_vars

\* an export of an edited session (speed 2, GIF) failed inside the engine
C9_Witness ==
  \E i \in DOMAIN calls :
    /\ Failed(i) /\ calls[i].caller = mountId
    /\ calls[i].args # << >>
    /\ speed = I(2) /\ format = "gif"
    /\ Gt(cropArea.width, Zero)


-----------------------------------------------------------------------------
(* The whole page                                                           *)

Next == NextCrop \/ NextTrim \/ NextExport

Spec == Init /\ [][Next]_vars


-----------------------------------------------------------------------------
(* Steps of a crop gesture                                                  *)

\* a gesture is running: the next mousemove at any pointer position commits
\* NewCrop of that position
GestureActive ==
  video # Null /\ isDragging /\ dragHandle # "null" /\ initialCrop # Null

\* the pointer deltas of a move to px / py, in source pixels
DeltaX(px) == Div(I(px - dragStart.x), getScale(videoDimensions))

DeltaY(py) == Div(I(py - dragStart.y), getScale(videoDimensions))

\* the corner of a rectangle diagonally opposite a corner handle
OppositeCorner(c, handle) ==
  CASE handle = "ne" -> <<c.x, Add(c.y, c.height)>>
    [] handle = "sw" -> <<Add(c.x, c.width), c.y>>
    [] handle = "nw" -> <<Add(c.x, c.width), Add(c.y, c.height)>>
    [] handle = "se" -> <<c.x, c.y>>

\* C11: during a corner-handle resize with the aspect lock (Alt) held, the
\* corner diagonally opposite the dragged handle stays where it was when the
\* gesture started, after every step.
C11_OppositeCornerFixed ==
  (GestureActive /\ isAltPressed /\ dragHandle \in CornerHandles)
    => \A px \in PointerXs, py \in PointerYs :
         OppositeCorner(NewCrop(px, py), dragHandle)
           = OppositeCorner(initialCrop, dragHandle)

\* clamp(v, lo, hi): v limited to [lo, hi], and lo where the interval is empty
Clamp(v, lo, hi) == RMax(lo, RMin(hi, v))

\* C12: a move drag never changes the width or the height, and after every
\* step x = clamp(x + dx, 0, frameWidth - width) and
\* y = clamp(y + dy, 0, frameHeight - height).
C12_MoveKeepsSize ==
  (GestureActive /\ dragHandle = "move")
    => \A px \in PointerXs, py \in PointerYs :
         LET c == NewCrop(px, py)
         IN  /\ c.width = cropArea.width
             /\ c.height = cropArea.height
             /\ c.x = Clamp(Add(cropArea.x, DeltaX(px)), Zero,
                            Sub(I(videoDimensions.videoWidth), cropArea.width))
             /\ c.y = Clamp(Add(cropArea.y, DeltaY(py)), Zero,
                            Sub(I(videoDimensions.videoHeight), cropArea.height))

\* a move drag has carried a shrunk rectangle away from the origin, up to the
\* right edge of the frame
C12_Witness ==
  /\ isDragging /\ dragHandle = "move"
  /\ Gt(cropArea.x, Zero)
  /\ Add(cropArea.x, cropArea.width) = I(videoDimensions.videoWidth)

\* C13: for a single-edge drag the opposite edge stays fixed after every
\* step: w keeps x + width and n keeps y + height at their gesture-start
\* values, e keeps x and s keeps y unchanged.
C13_OppositeEdgeFixed ==
  (GestureActive /\ dragHandle \in {"n", "s", "e", "w"})
    => \A px \in PointerXs, py \in PointerYs :
         LET c == NewCrop(px, py)
         IN  CASE dragHandle = "w" ->
                    Add(c.x, c.width) = Add(initialCrop.x, initialCrop.width)
               [] dragHandle = "n" ->
                    Add(c.y, c.height) = Add(initialCrop.y, initialCrop.height)
               [] dragHandle = "e" -> c.x = cropArea.x
               [] dragHandle = "s" -> c.y = cropArea.y

\* the width an e or w drag asks for at pointer px
RequestedWidth(px) ==
  IF Includes(dragHandle, "w") THEN Sub(initialCrop.width, DeltaX(px))
  ELSE Add(initialCrop.width, DeltaX(px))

\* C14: a resize step that would make a dimension smaller than MIN_SIZE is
\* rejected for that dimension: the dimension keeps its previous value.
C14_BelowMinRejected ==
  (GestureActive /\ dragHandle \in {"e", "w"} /\ ~isAltPressed)
    => \A px \in PointerXs, py \in PointerYs :
         Lt(RequestedWidth(px), I(MIN_SIZE))
           => NewCrop(px, py).width = cropArea.width

-----------------------------------------------------------------------------
(* CropControls: aspect presets and the width / height fields               *)

\* the values of ASPECT_RATIOS; null is the "Original" preset
ASPECT_RATIOS == {Null, I(1), Q(16, 9), Q(9, 16), Q(4, 3), Q(3, 4)}

\* a 1920 x 1080 clip next to the small one
HDFile == File("hd.mp4", "video/mp4", 1920, 1080, I(2), TRUE)

ControlFiles == {ClipFile, HDFile}

\* the else branch of handleRatioClick, always fitting to the height
ratioCrop_FitHeight(targetRatio, videoWidth, videoHeight) ==
  LET newHeight == I(videoHeight)
      newWidth  == Mul(I(videoHeight), targetRatio)
  IN  Rect(Div(Sub(I(videoWidth), newWidth), Two),
           Div(Sub(I(videoHeight), newHeight), Two), newWidth, newHeight)

\* the rectangle handleRatioClick hands to onCropChange for a numeric preset.
\* Before the metadata arrive videoWidth = videoHeight = 0, videoRatio is NaN
\* and the comparison is false.
ratioCrop(targetRatio, videoWidth, videoHeight) ==
  LET wider     == /\ videoHeight # 0
                   /\ Gt(targetRatio, Q(videoWidth, videoHeight))
      newWidth  == IF wider THEN I(videoWidth)
                   ELSE Mul(I(videoHeight), targetRatio)
      newHeight == IF wider THEN Div(I(videoWidth), targetRatio)
                   ELSE I(videoHeight)
  IN  Rect(Div(Sub(I(videoWidth), newWidth), Two),
           Div(Sub(I(videoHeight), newHeight), Two), newWidth, newHeight)

\* handleRatioClick(ratio): a click on one of the preset buttons
handleRatioClick(value) ==
  /\ videoFile # Null
  /\ selectedRatio' = value
  /\ cropArea' = IF value = Null
                 THEN Rect(Zero, Zero, I(videoMeta.width), I(videoMeta.height))
                 ELSE ratioCrop(value, videoMeta.width, videoMeta.height)
  /\ UNCHANGED <<videoFile, videoMeta, knownVideoDuration, currentTime, isPlaying,
                 trimStart, trimEnd, speed, video, cropVars, tlVars, thumbVars, recVars, exportVars,
                 nLoads, nGestures>>

\* the "Personalizado" button: onRatioChange('custom')
handleCustomClick ==
  /\ videoFile # Null
  /\ selectedRatio' = Custom
  /\ UNCHANGED <<videoFile, videoMeta, knownVideoDuration, currentTime, isPlaying,
                 trimStart, trimEnd, speed, cropArea, video, cropVars, tlVars, thumbVars, recVars,
                 exportVars, nLoads, nGestures>>

\* texts of a number field, as sequences of characters
EnteredValues ==
  { << >>, <<"4", "9">>, <<"5", "0">>, <<"1", "2", "0">>,
    <<"1", "2", "0", ".", "7">>, <<"1", "e", "3">>, <<"-", "6", "0">>,
    <<"5", "0", "0", "0">> }

DigitChars == <<"0", "1", "2", "3", "4", "5", "6", "7", "8", "9">>

IsDigit(ch) == \E i \in 1..10 : DigitChars[i] = ch

DigitValue(ch) == (CHOOSE i \in 1..10 : DigitChars[i] = ch) - 1

RECURSIVE DigitsValue(_, _)
\* the value of the leading digits of text, continuing from acc
DigitsValue(text, acc) ==
  IF text = << >> \/ ~IsDigit(Head(text)) THEN acc
  ELSE DigitsValue(Tail(text), 10 * acc + DigitValue(Head(text)))

\* parseInt(value, 10): an optional sign and the leading digits; NaN (Null)
\* when there is no digit
parseInt(value) ==
  LET signed == value # << >> /\ Head(value) \in {"-", "+"}
      body   == IF signed THEN Tail(value) ELSE value
  IN  IF body = << >> \/ ~IsDigit(Head(body)) THEN Null
      ELSE IF signed /\ Head(value) = "-" THEN I(-DigitsValue(body, 0))
      ELSE I(DigitsValue(body, 0))

\* if (isNaN(numValue) || numValue < 50) return
dimensionChangeReturnsEarly(value) ==
  parseInt(value) = Null \/ Lt(parseInt(value), I(50))

\* the rectangle in cropArea after handleDimensionChange(dimension, value)
dimensionCrop(dimension, value) ==
  IF dimensionChangeReturnsEarly(value) THEN cropArea
  ELSE IF dimension = "width"
  THEN [cropArea EXCEPT !.width =
          RMin(parseInt(value), Sub(I(videoMeta.width), cropArea.x))]
  ELSE [cropArea EXCEPT !.height =
          RMin(parseInt(value), Sub(I(videoMeta.height), cropArea.y))]

\* selectedRatio after handleDimensionChange(dimension, value):
\* onRatioChange(null)
dimensionRatio(value) ==
  IF dimensionChangeReturnsEarly(value) THEN selectedRatio ELSE Null

\* handleDimensionChange(dimension, value): onChange of a number field
handleDimensionChange(dimension, value) ==
  /\ videoFile # Null
  /\ cropArea' = dimensionCrop(dimension, value)
  /\ selectedRatio' = dimensionRatio(value)
  /\ UNCHANGED <<videoFile, videoMeta, knownVideoDuration, currentTime, isPlaying,
                 trimStart, trimEnd, speed, video, cropVars, tlVars, thumbVars, recVars, exportVars,
                 nLoads, nGestures>>

NextControls ==
  \/ \E f \in ControlFiles : handleVideoLoad(f, Null)
  \/ \E f \in ControlFiles : \E dw \in DisplayWidths(f) :
       videoFile = f /\ updateVideoDimensions(dw)
  \/ \E r \in ASPECT_RATIOS : handleRatioClick(r)
  \/ handleCustomClick
  \/ \E d \in {"width", "height"}, v \in EnteredValues : handleDimensionChange(d, v)

SpecControls == Init /\ [][NextControls]_vars

\* the rectangle a numeric preset r selects on a W x H frame
PresetRect(r, W, H) ==
  LET width  == IF Gt(r, Div(I(W), I(H))) THEN I(W) ELSE Mul(I(H), r)
      height == IF Gt(r, Div(I(W), I(H))) THEN Div(I(W), r) ELSE I(H)
  IN  Rect(Div(Sub(I(W), width), Two), Div(Sub(I(H), height), Two), width, height)

\* C15: selecting a numeric aspect preset r on a W x H frame sets the lock to
\* r together with the rectangle (width, height) = (W, W/r) if r > W/H, else
\* (H*r, H), centred on both axes; preset 1:1 on 1920x1080 gives
\* width = height = 1080, x = 420, y = 0.
C15_PresetRect ==
  [][\A r \in ASPECT_RATIOS \ {Null} :
       (videoMeta.width > 0 /\ handleRatioClick(r))
         => /\ selectedRatio' = r
            /\ cropArea' = PresetRect(r, videoMeta.width, videoMeta.height)
            /\ (r = I(1) /\ videoMeta.width = 1920 /\ videoMeta.height = 1080)
                 => cropArea' = Rect(I(420), Zero, I(1080), I(1080))]_vars

\* preset 1:1 was selected on the 1920 x 1080 clip
C15_Witness ==
  /\ videoMeta.width = 1920 /\ videoMeta.height = 1080
  /\ selectedRatio = I(1)
  /\ cropArea = Rect(I(420), Zero, I(1080), I(1080))


\* the texts that are a plain whole number
WholeNumbers == {v \in EnteredValues : v # << >> /\ \A i \in DOMAIN v : IsDigit(v[i])}

\* C16: a manual numeric edit of width (resp. height) commits a value clamped
\* to [MIN_SIZE, frameWidth - x] (resp. [MIN_SIZE, frameHeight - y]): an
\* entered value below MIN_SIZE commits MIN_SIZE and a value above the upper
\* bound commits the upper bound.
C16_ManualEditClamped ==
  (videoMeta.width > 0 /\ CropInFrame(cropArea, videoMeta.width, videoMeta.height)
     /\ CropMinSize(cropArea))
    => \A v \in WholeNumbers :
         /\ dimensionCrop("width", v).width
              = Clamp(parseInt(v), I(MIN_SIZE), Sub(I(videoMeta.width), cropArea.x))
         /\ dimensionCrop("height", v).height
              = Clamp(parseInt(v), I(MIN_SIZE), Sub(I(videoMeta.height), cropArea.y))

\* C17: every manual numeric edit of width or height sets the aspect lock to
\* custom, whatever the lock was before the edit.
C17_ManualEditSetsCustom ==
  videoMeta.width > 0
    => \A v \in WholeNumbers :
         Ge(parseInt(v), I(MIN_SIZE)) => dimensionRatio(v) = Custom

-----------------------------------------------------------------------------
(* Steps of the timeline and of playback                                    *)

\* C18: a start-handle drag sets start = clamp(time, 0, end - 0.5) and never
\* changes end; an end-handle drag sets end = clamp(time, start + 0.5,
\* duration) and never changes start.
C18_TrimDragStep ==
  [][\A x \in TrackXs :
       LET time == getTimeFromPosition(x)
       IN  /\ (tlIsDragging = "start" /\ tlHandleMouseMove(x))
                => /\ trimStart' = Clamp(time, Zero, Sub(trimEnd, MIN_DURATION))
                   /\ trimEnd' = trimEnd
           /\ (tlIsDragging = "end" /\ tlHandleMouseMove(x))
                => /\ trimEnd' = Clamp(time, Add(trimStart, MIN_DURATION),
                                       videoMeta.duration)
                   /\ trimStart' = trimStart]_vars

\* an end-handle drag towards the start stopped MIN_DURATION after a start
\* that an earlier drag had moved
C18_Witness ==
  /\ TimelineShown /\ tlIsDragging = "end"
  /\ Gt(trimStart, Zero)
  /\ trimEnd = Add(trimStart, MIN_DURATION)
  /\ Lt(trimEnd, videoMeta.duration)

\* C19: every explicit seek request (timeline click or playhead drag) sets the
\* cursor and the player position to clamp(time, trimStart, trimEnd), and
\* never changes trimStart or trimEnd.
C19_SeekClamped ==
  [][\A x \in TrackXs :
       (\/ tlIsDragging = "null" /\ handleTrackClick(x)
        \/ tlIsDragging = "playhead" /\ tlHandleMouseMove(x))
         => /\ currentTime' = Clamp(getTimeFromPosition(x), trimStart, trimEnd)
            /\ video'.currentTime = Clamp(getTimeFromPosition(x), trimStart, trimEnd)
            /\ trimStart' = trimStart
            /\ trimEnd' = trimEnd]_vars

\* a seek to the end of the clip was held at the end of a shortened trim
C19_Witness ==
  /\ TimelineShown /\ tlIsDragging = "playhead"
  /\ Lt(trimEnd, videoMeta.duration)
  /\ currentTime = trimEnd /\ video.currentTime = trimEnd
  /\ Gt(trimStart, Zero)

\* C20: for a reported time t and trim [start, end], t >= end stops playback
\* (player paused, playing flag false) with the cursor at end; t < start puts
\* the cursor at start without stopping; otherwise the cursor is set to t and
\* nothing else changes.
C20_TimeUpdateDecision ==
  [][handleTimeUpdate =>
       LET t == video.currentTime
       IN  IF Ge(t, trimEnd)
           THEN /\ video'.paused /\ ~isPlaying'
                /\ currentTime' = trimEnd
           ELSE IF Lt(t, trimStart)
           THEN /\ currentTime' = trimStart
                /\ video'.paused = video.paused /\ isPlaying' = isPlaying
           ELSE /\ currentTime' = t
                /\ UNCHANGED <<videoFile, videoMeta, knownVideoDuration, isPlaying,
                               trimStart, trimEnd, speed, cropArea, selectedRatio,
                               video, cropVars, tlVars, thumbVars, recVars, exportVars>>]_vars

\* playback ran into the end of a shortened trim and was stopped there
C20_Witness ==
  /\ video # Null /\ video.paused /\ ~isPlaying
  /\ Lt(trimEnd, videoMeta.duration) /\ Gt(trimEnd, trimStart)
  /\ currentTime = trimEnd /\ video.currentTime = trimEnd
  /\ tlIsDragging = "null"


\* C21: when play is toggled from the paused state while the playback position
\* is at or past trim end, the position is first set to trim start and
\* playback resumes from there: the toggle is not a no-op, and the position it
\* resumes from is not one at which the next time update pauses it again.
C21_PlayFromEnd ==
  [][(handlePlayPause /\ ~isPlaying /\ Ge(video.currentTime, trimEnd))
       => /\ video'.currentTime = trimStart
          /\ ~video'.paused /\ isPlaying'
          /\ Lt(video'.currentTime, trimEnd')]_vars

-----------------------------------------------------------------------------
(* The compiled command: audio stages and repeatability                     *)

\* the filters of both chains of a command
AllFilters(args) ==
  LET f == FilterArg(args)
  IN  {f.v[k] : k \in DOMAIN f.v} \cup {f.a[k] : k \in DOMAIN f.a}

\* C22: for animated-image (GIF) output the compiled command contains no
\* audio filter and no tempo stage, for every speed value.
C22_GifNoAudioStage ==
  \A i \in BuiltCalls :
    calls[i].options.format = "gif"
      => /\ FilterArg(calls[i].args).a = << >>
         /\ \A f \in AllFilters(calls[i].args) : f.name # "atempo"
         /\ OptionsAt(calls[i].args, "-af") = {}

\* a GIF command was built for a speed of more than 2x, which needs a chain of
\* tempo stages in video output
C22_Witness ==
  \E i \in BuiltCalls :
    /\ calls[i].options.format = "gif"
    /\ Gt(calls[i].options.speed, Two)
    /\ \E f \in AllFilters(calls[i].args) : f.name = "setpts"

-----------------------------------------------------------------------------
(* The engine instance behind an export                                     *)

\* invocation i has been handed an engine by initFFmpeg
HasEngine(i) == calls[i].ff # 0

\* C24: the encoding engine is initialized lazily and memoized: no instance
\* exists before the first export, an export that finds a load succeeded
\* loads nothing, and the engine an export is handed by initFFmpeg is an
\* instance whose load has succeeded.
C24_EngineMemoized ==
  /\ (calls = << >> => engines = << >> /\ ~loaded)
  /\ \A i \in DOMAIN calls :
       HasEngine(i) => /\ loaded
                       /\ engines[calls[i].ff].loaded


MaxProgress == 2    \* progress events handed to one callback in one run

\* the fractions the engine reports while it executes a command
EngineProgress == {Q(1, 3), One}

\* an instance executes one command at a time: invocation i's exec can be the
\* one that reports while no other exec sent to its instance has begun to
\* report and not yet returned
Running(i) ==
  /\ calls[i].pc = "exec"
  /\ \A j \in DOMAIN calls \ {i} :
       (calls[j].ff = calls[i].ff /\ calls[j].pc = "exec")
         => calls[j].emitted = Zero

\* the engine reports progress for the exec of invocation i, never less than
\* it reported before for this exec: the 'progress' listener of the instance
\* runs onProgress(Math.round(progress * 100)) of the invocation that created
\* the instance
engineProgress(i, progress) ==
  /\ i \in DOMAIN calls /\ Running(i)
  /\ Ge(progress, calls[i].emitted)
  /\ LET k == engines[calls[i].ff].listener
         p == Round(Mul(progress, I(100)))
     IN  /\ Len(calls[k].received) < MaxProgress
         /\ calls' = [j \in DOMAIN calls |->
                        [calls[j] EXCEPT
                           !.emitted  = IF j = i THEN progress ELSE @,
                           !.received = IF j = k /\ InFlight(calls[k])
                                        THEN Append(@, p) ELSE @]]
  /\ UNCHANGED <<loaded, ffmpeg, engines, isExporting, alerts, timers, downloads>>
  /\ engineFrame

\* loading, exporting and unloading, with the engine reporting progress
NextEngine ==
  \/ handleVideoLoad(ClipFile, Null)
  \/ handleNewVideo
  \/ handleExport
  \/ \E i \in 1..MaxExports : EngineStep(i)
  \/ \E i \in 1..MaxExports, progress \in EngineProgress : engineProgress(i, progress)
  \/ \E t \in Timers : timerFires(t)

SpecEngine == Init /\ [][NextEngine]_vars

NonDecreasing(seq) == \A m, n \in DOMAIN seq : m < n => seq[m] <= seq[n]

\* C25: during a single export, the progress percentages delivered to the
\* caller's callback form a non-decreasing sequence.
C25_ProgressMonotone ==
  \A k \in DOMAIN calls : NonDecreasing(calls[k].received)

-----------------------------------------------------------------------------
(* Media events after the load                                              *)

\* the player fires loadedmetadata, canplay, loadeddata or durationchange on
\* media whose metadata the page has already taken
LateMediaEvent ==
  /\ videoFile # Null
  /\ videoMeta.width > 0
  /\ \E dw \in DisplayWidths(videoFile) : updateVideoDimensions(dw)

\* C26: once media has loaded, the crop rectangle and the trim interval change
\* only through user edits: repeated or late media-ready / duration events
\* from the player do not reset the crop to the full frame or the trim to
\* [0, duration].
\* (A trim end that is still 0 because the duration is unresolved may take the
\* duration the event reports.)
C26_EventsKeepEdits ==
  [][LateMediaEvent
       => /\ cropArea' = cropArea
          /\ Gt(videoMeta.duration, Zero)
               => (trimStart' = trimStart /\ trimEnd' = trimEnd)]_vars


-----------------------------------------------------------------------------
(* The duration of the session                                              *)

\* durations a capture hands over with its recording: the wall-clock length
\* Math.max(1, durationMs / 1000), which need not be the container's
CaptureDurations(file) == IF isScreenRecording(file) THEN {Null, Two} ELSE {Null}

\* an event of the element that carries its duration to the App
DurationEvent ==
  /\ video # Null
  /\ \/ updateDuration
     \/ \E dw \in DisplayWidths(videoFile) : updateVideoDimensions(dw)

NextDuration ==
  \/ \E f \in Files : \E k \in CaptureDurations(f) : handleVideoLoad(f, k)
  \/ handleNewVideo
  \/ \E f \in Files : \E dw \in DisplayWidths(f) : updateVideoDimensions(dw)
  \/ VideoResolvesDuration
  \/ updateDuration
  \/ \E type \in {"start", "end", "playhead"} : tlHandleMouseDown(type)
  \/ \E x \in TrackXs : tlHandleMouseMove(x)
  \/ tlHandleMouseUp

SpecDuration == Init /\ [][NextDuration]_vars

\* C27: while the session duration is 0, a duration event that reports a
\* finite positive duration sets the session duration and the trim end to the
\* reported value; once the session duration is positive, no step changes it
\* until the video is unloaded.
C27_DurationCorrectedOnce ==
  [][/\ (DurationEvent /\ videoMeta.duration = Zero
           /\ VideoDuration # Null /\ Gt(VideoDuration, Zero))
          => (videoMeta'.duration = VideoDuration /\ trimEnd' = VideoDuration)
     /\ (Gt(videoMeta.duration, Zero) /\ videoFile' = videoFile)
          => videoMeta'.duration = videoMeta.duration]_vars

C27_Witness ==
  /\ videoFile = RecordingFile
  /\ video.resolved
  /\ videoMeta.width > 0
  /\ videoMeta.duration = RecordingFile.duration
  /\ trimEnd = RecordingFile.duration

\* C28: a recording loaded with a capture duration d > 0 has session duration
\* d and trim end d from the load on; the first media event keeps both at d,
\* and while the element has not resolved its duration no duration event
\* changes the session duration.
C28_CaptureDurationKept ==
  [][/\ \A d \in CaptureDurations(RecordingFile) \ {Null} :
          handleVideoLoad(RecordingFile, d)
            => (videoMeta'.duration = d /\ trimStart' = Zero /\ trimEnd' = d)
     /\ (DurationEvent /\ knownVideoDuration # Null)
          => (videoMeta'.duration = knownVideoDuration
                /\ trimEnd' = knownVideoDuration)
     /\ (DurationEvent /\ ~video.resolved /\ Gt(videoMeta.duration, Zero))
          => videoMeta'.duration = videoMeta.duration]_vars

C28_Witness ==
  /\ videoFile = RecordingFile
  /\ ~video.resolved
  /\ knownVideoDuration = Null
  /\ videoMeta.width > 0
  /\ videoMeta.duration = Two
  /\ trimEnd = Two


-----------------------------------------------------------------------------
(* Thumbnails: generateThumbnails on a detached copy of the file            *)

ThumbCount == 3          \* frames sampled per generation
MaxLoops == 1            \* canplay events that can start generateThumbs in one call
MaxGenerations == 1      \* generateThumbnailsFromVideo calls on live videos

Tenth == Q(1, 10)

\* an uploaded WebM whose container does not state its duration
UploadFile == File("upload.webm", "video/webm", 200, 150, I(1), FALSE)

ThumbFiles == {ClipFile, RecordingFile, UploadFile}

\* Math.min(i * interval, duration - 0.1) with interval = duration / count
SampleTime(i, duration) ==
  RMin(Mul(I(i), Div(duration, I(ThumbCount))), Sub(duration, Tenth))

\* resolve(value) of the promise of generateThumbnails, reached on path `by`;
\* a settled promise ignores it
JobResolve(job, by, value) ==
  IF job.settled = "pending"
  THEN [job EXCEPT !.settled = by, !.result = value]
  ELSE job

\* a step of call j of generateThumbnails that leaves it as the record `job`;
\* when the step settles the promise, handleVideoLoad resumes after its await
\* and runs setThumbnails(thumbs)
JobStep(j, job) ==
  /\ jobs' = [jobs EXCEPT ![j] = job]
  /\ thumbnails' = IF jobs[j].settled = "pending" /\ job.settled # "pending"
                   THEN IF job.settled = "rejected" THEN << >> ELSE job.result
                   ELSE thumbnails
  /\ UNCHANGED <<appVars, cropVars, tlVars, exportVars, gens, recVars, nLoads,
                 nGestures>>

\* video.onloadedmetadata
jobLoadedMetadata(j) ==
  /\ j \in DOMAIN jobs
  /\ ~jobs[j].metadata
  /\ JobStep(j, [jobs[j] EXCEPT
                   !.metadata = TRUE,
                   !.duration = IF jobs[j].elResolved /\ Gt(jobs[j].file.duration, Zero)
                                THEN jobs[j].file.duration ELSE @])

\* video.ondurationchange with the duration the element has worked out
jobDurationChange(j) ==
  /\ j \in DOMAIN jobs
  /\ jobs[j].metadata /\ ~jobs[j].elResolved
  /\ JobStep(j, [jobs[j] EXCEPT
                   !.elResolved = TRUE,
                   !.duration = IF Gt(jobs[j].file.duration, Zero)
                                THEN jobs[j].file.duration ELSE @])

\* generateThumbs() up to its first await
generateThumbs(job) ==
  IF Le(job.duration, Zero)
  THEN JobResolve(job, "invalid", << >>)
  ELSE [job EXCEPT !.loops = Append(@, 0)]

\* video.oncanplay
jobCanPlay(j) ==
  /\ j \in DOMAIN jobs
  /\ jobs[j].metadata
  /\ Len(jobs[j].loops) < MaxLoops
  /\ JobStep(j, IF /\ jobs[j].file.videoWidth > 0
                   /\ Gt(jobs[j].duration, Zero)
                   /\ jobs[j].thumbnails = << >>
                THEN generateThumbs(jobs[j])
                ELSE jobs[j])

\* one turn of the loop of generateThumbs: captureFrame settles (the frame,
\* or a rejection by its 2 s timeout or by drawImage, which pushes null)
jobFrame(j, l, ok) ==
  /\ j \in DOMAIN jobs
  /\ l \in DOMAIN jobs[j].loops
  /\ jobs[j].loops[l] < ThumbCount
  /\ LET i     == jobs[j].loops[l]
         time  == SampleTime(i, jobs[j].duration)
         thumb == IF ok THEN time ELSE Null
         job   == [jobs[j] EXCEPT !.loops[l] = i + 1,
                                  !.thumbnails = Append(@, thumb)]
     IN  JobStep(j, IF i + 1 = ThumbCount
                    THEN JobResolve(job, "done", job.thumbnails)
                    ELSE job)

\* video.onerror that rejects the promise
jobError_Rejects(j) ==
  /\ j \in DOMAIN jobs
  /\ jobs[j].settled = "pending"
  /\ JobStep(j, [jobs[j] EXCEPT !.settled = "rejected"])

\* video.onerror
jobError(j) ==
  /\ j \in DOMAIN jobs
  /\ jobs[j].settled = "pending"
  /\ JobStep(j, JobResolve(jobs[j], "error", << >>))

\* the setTimeout(..., 5000) fallback
jobTimeout(j) ==
  /\ j \in DOMAIN jobs
  /\ jobs[j].timer
  /\ LET job == [jobs[j] EXCEPT !.timer = FALSE]
     IN  JobStep(j, IF job.thumbnails = << >>
                    THEN JobResolve(job, "timeout", << >>)
                    ELSE job)

-----------------------------------------------------------------------------
(* Thumbnails: generateThumbnailsFromVideo on the live <video>              *)

\* the element of generation g is the one on screen
Mounted(g) == gens[g].mount = mountId /\ video # Null

\* captureNext() of a generation, with the element at `t` and the strip `strip`
captureNext(gen, t, strip) ==
  IF gen.currentIndex >= ThumbCount
  THEN [gen   |-> [gen EXCEPT !.listening = FALSE, !.resolved = TRUE,
                              !.result = IF gen.resolved THEN @ ELSE gen.thumbnails],
        t     |-> gen.originalTime,
        strip |-> IF ~gen.resolved /\ gen.thumbnails # << >>
                  THEN gen.thumbnails ELSE strip]
  ELSE [gen   |-> [gen EXCEPT !.listening = TRUE],
        t     |-> RMax(Zero, SampleTime(gen.currentIndex, gen.duration)),
        strip |-> strip]

\* the effect of App that starts a generation (at once and on canplay), and
\* generateThumbnailsFromVideo up to the return of its promise
generateRecordingThumbnails ==
  /\ video # Null
  /\ isScreenRecording(videoFile)
  /\ thumbnails = << >>
  /\ Gt(videoMeta.duration, Zero)
  /\ videoDimensions.width > 0
  /\ Len(gens) < MaxGenerations
  /\ LET gen == [mount |-> mountId, duration |-> videoMeta.duration,
                 originalTime |-> video.currentTime, currentIndex |-> 0,
                 thumbnails |-> << >>, listening |-> FALSE, timer |-> TRUE,
                 resolved |-> FALSE, result |-> << >>]
         next == captureNext(gen, video.currentTime, thumbnails)
     IN  /\ gens' = Append(gens, next.gen)
         /\ video' = [video EXCEPT !.currentTime = next.t]
         /\ thumbnails' = next.strip
  /\ UNCHANGED <<videoFile, videoMeta, knownVideoDuration, currentTime, isPlaying,
                 trimStart, trimEnd, speed, selectedRatio, cropArea, cropVars,
                 tlVars, exportVars, jobs, recVars, nLoads, nGestures>>

\* onSeeked of generation g, then captureNext()
onSeeked(gen, t, strip, ok) ==
  captureNext([gen EXCEPT !.thumbnails = Append(@, IF ok THEN t ELSE Null),
                          !.currentIndex = @ + 1],
              t, strip)

\* the listeners of the generations on element m, run in registration order
\* from generation g on
RECURSIVE Dispatch(_, _, _, _, _, _)
Dispatch(g, m, gs, t, strip, ok) ==
  IF g > Len(gs)
  THEN [gens |-> gs, t |-> t, strip |-> strip]
  ELSE IF gs[g].mount = m /\ gens[g].listening
       THEN LET r == onSeeked(gs[g], t, strip, ok)
            IN  Dispatch(g + 1, m, [gs EXCEPT ![g] = r.gen], r.t, r.strip, ok)
       ELSE Dispatch(g + 1, m, gs, t, strip, ok)

\* the element mounted by load m fires 'seeked'
genSeeked(m, ok) ==
  /\ \E g \in DOMAIN gens : gens[g].mount = m /\ gens[g].listening
  /\ LET live == m = mountId /\ video # Null
         r == Dispatch(1, m, gens, IF live THEN video.currentTime ELSE Zero,
                       thumbnails, ok)
     IN  /\ gens' = r.gens
         /\ thumbnails' = r.strip
         /\ video' = IF live THEN [video EXCEPT !.currentTime = r.t] ELSE video
  /\ UNCHANGED <<videoFile, videoMeta, knownVideoDuration, currentTime, isPlaying,
                 trimStart, trimEnd, speed, selectedRatio, cropArea, cropVars,
                 tlVars, exportVars, jobs, recVars, nLoads, nGestures>>

\* the setTimeout(..., 10000) fallback of generation g
genTimeout(g) ==
  /\ g \in DOMAIN gens
  /\ gens[g].timer
  /\ LET gen == gens[g]
         short == Len(gen.thumbnails) < ThumbCount
     IN  /\ gens' = [gens EXCEPT ![g] =
                       [gen EXCEPT !.timer = FALSE,
                                   !.resolved = IF short THEN TRUE ELSE @,
                                   !.result = IF short /\ ~gen.resolved
                                              THEN gen.thumbnails ELSE @]]
         /\ video' = IF short /\ Mounted(g)
                     THEN [video EXCEPT !.currentTime = gen.originalTime]
                     ELSE video
         /\ thumbnails' = IF short /\ ~gen.resolved /\ gen.thumbnails # << >>
                          THEN gen.thumbnails ELSE thumbnails
  /\ UNCHANGED <<videoFile, videoMeta, knownVideoDuration, currentTime, isPlaying,
                 trimStart, trimEnd, speed, selectedRatio, cropArea, cropVars,
                 tlVars, exportVars, jobs, recVars, nLoads, nGestures>>

ThumbTrackXs == {0, TrackWidth \div 2}

\* the uploads that get a detached copy, and what happens to the copy
NextThumbJobs ==
  \/ \E f \in ThumbFiles : handleVideoLoad(f, Null)
  \/ handleNewVideo
  \/ \E j \in 1..MaxLoads : jobLoadedMetadata(j)
  \/ \E j \in 1..MaxLoads : jobDurationChange(j)
  \/ \E j \in 1..MaxLoads : jobCanPlay(j)
  \/ \E j \in 1..MaxLoads, l \in 1..MaxLoops, ok \in BOOLEAN : jobFrame(j, l, ok)
  \/ \E j \in 1..MaxLoads : jobError(j)
  \/ \E j \in 1..MaxLoads : jobTimeout(j)

SpecThumbJobs == Init /\ [][NextThumbJobs]_vars

\* a recording on screen, the user's seeks and the generations on its element
NextThumbLive ==
  \/ \E k \in CaptureDurations(RecordingFile) : handleVideoLoad(RecordingFile, k)
  \/ handleNewVideo
  \/ \E dw \in DisplayWidths(RecordingFile) : updateVideoDimensions(dw)
  \/ \E x \in ThumbTrackXs : handleTrackClick(x)
  \/ generateRecordingThumbnails
  \/ \E m \in 1..MaxLoads, ok \in BOOLEAN : genSeeked(m, ok)
  \/ \E g \in 1..MaxGenerations : genTimeout(g)

SpecThumbLive == Init /\ [][NextThumbLive]_vars

\* a step taken by the code of a generation on the live video
GenerationStep ==
  \/ \E m \in 1..MaxLoads, ok \in BOOLEAN : genSeeked(m, ok)
  \/ \E g \in 1..MaxGenerations : genTimeout(g)

\* C29: the step in which a generation on the video on screen resolves its
\* promise (by completion or by its timeout) leaves the player at the position
\* it had when the generation started, and no later step of that generation
\* moves the player.
C29_PlayheadRestored ==
  [][\A g \in DOMAIN gens :
       (Mounted(g) /\ GenerationStep)
         => /\ (~gens[g].resolved /\ gens'[g].resolved)
                 => video'.currentTime = gens[g].originalTime
            /\ gens[g].resolved => video'.currentTime = video.currentTime]_vars

\* C30: the promise of generateThumbnails is never rejected; when it is
\* settled by the load error, by the 5 s fallback or by the duration check,
\* or while the duration it saw was never finite and positive, its result is
\* the empty list.
C30_InvalidSourceEmpty ==
  \A j \in DOMAIN jobs :
    /\ jobs[j].settled # "rejected"
    /\ jobs[j].settled \in {"error", "timeout", "invalid"} => jobs[j].result = << >>
    /\ (jobs[j].settled # "pending" /\ jobs[j].duration = Zero)
         => jobs[j].result = << >>

C30_Witness ==
  \E j \in DOMAIN jobs :
    /\ jobs[j].file = UploadFile /\ videoFile = UploadFile
    /\ jobs[j].metadata /\ jobs[j].duration = Zero
    /\ jobs[j].settled = "timeout"
    /\ thumbnails = << >>


-----------------------------------------------------------------------------
(* The timeline on a track of any width                                     *)

\* JavaScript's NaN and the operations of the handlers on values that may be NaN
NaN == [nan |-> TRUE]

IsNaN(a) == a = NaN

JsMax(a, b) == IF IsNaN(a) \/ IsNaN(b) THEN NaN ELSE RMax(a, b)
JsMin(a, b) == IF IsNaN(a) \/ IsNaN(b) THEN NaN ELSE RMin(a, b)
JsAdd(a, b) == IF IsNaN(a) \/ IsNaN(b) THEN NaN ELSE Add(a, b)
JsSub(a, b) == IF IsNaN(a) \/ IsNaN(b) THEN NaN ELSE Sub(a, b)
JsMul(a, b) == IF IsNaN(a) \/ IsNaN(b) THEN NaN ELSE Mul(a, b)
JsLt(a, b)  == ~IsNaN(a) /\ ~IsNaN(b) /\ Lt(a, b)
JsGt(a, b)  == JsLt(b, a)

\* rect.width of the track when a pointer event arrives: laid out, or collapsed
TrackWidths == {0, TrackWidth}

\* Math.max(0, Math.min(1, x / rect.width)): x / 0 is Infinity, -Infinity or NaN
TrackPercentage(x, width) ==
  IF width = 0
  THEN IF x > 0 THEN One ELSE IF x < 0 THEN Zero ELSE NaN
  ELSE RMax(Zero, RMin(One, Q(x, width)))

\* getTimeFromPosition(clientX) on a track of the given width at rect.left = 0
getTimeFromPositionOn(clientX, width) ==
  IF Le(videoMeta.duration, Zero) THEN Zero
  ELSE JsMul(TrackPercentage(clientX, width), videoMeta.duration)

\* App.handleTrimChange(start, end) on values that may be NaN
jsHandleTrimChange(start, end) ==
  /\ trimStart' = start
  /\ trimEnd' = end
  /\ IF video # Null /\ JsLt(video.currentTime, start)
     THEN /\ video' = [video EXCEPT !.currentTime = start]
          /\ currentTime' = start
     ELSE IF video # Null /\ JsGt(video.currentTime, end)
     THEN /\ video' = [video EXCEPT !.currentTime = end]
          /\ currentTime' = end
     ELSE UNCHANGED <<video, currentTime>>

\* App.handleSeek(time) on values that may be NaN; the assignment of NaN to
\* video.currentTime throws a TypeError, which ends the handler
jsHandleSeek(time) ==
  LET clampedTime == JsMax(trimStart, JsMin(trimEnd, time))
  IN  IF video # Null /\ ~IsNaN(clampedTime)
      THEN /\ video' = [video EXCEPT !.currentTime = clampedTime]
           /\ currentTime' = clampedTime
      ELSE UNCHANGED <<video, currentTime>>

\* Timeline.handleMouseMove(e) with the track at the given width
trackHandleMouseMove(clientX, width) ==
  /\ TimelineShown
  /\ LET time == getTimeFromPositionOn(clientX, width)
     IN  CASE tlIsDragging = "start" ->
                jsHandleTrimChange(JsMax(Zero, JsMin(JsSub(trimEnd, MIN_DURATION), time)),
                                   trimEnd)
           [] tlIsDragging = "end" ->
                jsHandleTrimChange(trimStart,
                                   JsMax(JsAdd(trimStart, MIN_DURATION),
                                         JsMin(videoMeta.duration, time)))
           [] tlIsDragging = "playhead" ->
                /\ jsHandleSeek(JsMax(Zero, JsMin(videoMeta.duration, time)))
                /\ UNCHANGED <<trimStart, trimEnd>>
           [] OTHER ->
                UNCHANGED <<trimStart, trimEnd, video, currentTime>>
  /\ UNCHANGED <<videoFile, videoMeta, knownVideoDuration, isPlaying, speed,
                 cropState, tlVars, thumbVars, recVars, exportVars, nLoads, nGestures>>

NextTrack ==
  \/ handleVideoLoad(ClipFile, Null)
  \/ handleNewVideo
  \/ \E dw \in DisplayWidths(ClipFile) : updateVideoDimensions(dw)
  \/ \E type \in {"start", "end", "playhead"} : tlHandleMouseDown(type)
  \/ \E x \in TrackXs, width \in TrackWidths : trackHandleMouseMove(x, width)
  \/ tlHandleMouseUp

SpecTrack == Init /\ [][NextTrack]_vars

\* C31: a pointer move that reaches the timeline while its track has width 0
\* changes neither the trim bounds nor the cursor.
C31_CollapsedTrackNoOp ==
  [][\A x \in TrackXs :
       trackHandleMouseMove(x, 0)
         => (trimStart' = trimStart /\ trimEnd' = trimEnd
               /\ currentTime' = currentTime)]_vars


-----------------------------------------------------------------------------
(* Crop and timeline gestures in one session                                *)

\* pointer positions of the crop gestures: the corners of the pointer grid
GestureXs == {0, PointerCols * PointerStepX}
GestureYs == {0, PointerRows * PointerStepY}

GestureHandles == {"move", "se", "nw"}

NextGestures ==
  \/ handleVideoLoad(ClipFile, Null)
  \/ \E dw \in DisplayWidths(ClipFile) : updateVideoDimensions(dw)
  \/ \E h \in GestureHandles : handleMouseDown(h)
  \/ \E px \in GestureXs, py \in GestureYs : handleMouseMove(px, py)
  \/ handleMouseUp
  \/ \E type \in {"start", "end", "playhead"} : tlHandleMouseDown(type)
  \/ \E x \in TrackXs : tlHandleMouseMove(x)
  \/ tlHandleMouseUp

SpecGestures == Init /\ [][NextGestures]_vars

\* the session state that gestures edit
Edited == <<cropArea, trimStart, trimEnd, currentTime, video>>

\* C32: a pointer release clears the drag state of its component (the crop
\* overlay: dragging flag, handle and initial rectangle; the timeline: its
\* handle), and a pointer move that reaches a component whose gesture has
\* ended changes neither the crop rectangle nor the trim interval nor the
\* cursor.
C32_DragStatePerGesture ==
  [][/\ handleMouseUp
          => (~isDragging' /\ dragHandle' = "null" /\ initialCrop' = Null)
     /\ tlHandleMouseUp => tlIsDragging' = "null"
     /\ \A px \in GestureXs, py \in GestureYs :
          ((~isDragging \/ dragHandle = "null" \/ initialCrop = Null)
             /\ handleMouseMove(px, py))
            => Edited' = Edited
     /\ \A x \in TrackXs :
          (tlIsDragging = "null" /\ tlHandleMouseMove(x)) => Edited' = Edited]_vars

C32_Witness ==
  /\ video # Null
  /\ nGestures > 0 /\ ~isDragging /\ dragHandle = "null" /\ initialCrop = Null
  /\ tlIsDragging = "null"
  /\ cropArea # Rect(Zero, Zero, I(videoFile.videoWidth), I(videoFile.videoHeight))
  /\ Gt(trimStart, Zero)


-----------------------------------------------------------------------------
(* The crop rectangle as it is written into the command                     *)

\* presets and moves of the crop box on the small clip
NextRounding ==
  \/ handleVideoLoad(ClipFile, Null)
  \/ \E dw \in DisplayWidths(ClipFile) : updateVideoDimensions(dw)
  \/ \E r \in ASPECT_RATIOS : handleRatioClick(r)
  \/ handleMouseDown("move")
  \/ \E px \in PointerXs, py \in PointerYs : handleMouseMove(px, py)
  \/ handleMouseUp

SpecRounding == Init /\ [][NextRounding]_vars

\* the crop rectangle lies inside the frame of the loaded file
SessionCropInFrame ==
  /\ videoMeta.width > 0
  /\ Ge(cropArea.x, Zero) /\ Ge(cropArea.y, Zero)
  /\ Le(Add(cropArea.x, cropArea.width), I(videoMeta.width))
  /\ Le(Add(cropArea.y, cropArea.height), I(videoMeta.height))

\* C33: whenever the session's crop rectangle lies inside the frame, the
\* crop filter compiled from it (width, height, x, y, each rounded) lies
\* inside the frame too.
C33_RoundedCropInFrame ==
  (SessionCropInFrame /\ cropFilters(exportOptions) # << >>)
    => LET a == cropFilters(exportOptions)[1].args
       IN  /\ Le(Add(a[3], a[1]), I(videoMeta.width))
           /\ Le(Add(a[4], a[2]), I(videoMeta.height))


-----------------------------------------------------------------------------
(* Exports that share the engine                                            *)

\* invocation i is between its writeFile and the end of its readFile
OnEngine(i) == calls[i].pc \in {"writeFile", "exec", "readFile"}

\* C34: no two processVideo invocations are at work on the engine (writing
\* their input, executing or reading their output) at the same time.
C34_EngineNotShared ==
  \A i, j \in DOMAIN calls : (OnEngine(i) /\ OnEngine(j)) => i = j


\* the progress listener of the instance that serves invocation i belongs to
\* the ExportButton that started invocation i
OwnListener(i) ==
  calls[engines[calls[i].ff].listener].caller = calls[i].caller

\* C35: a progress event the engine emits while it executes an export is
\* delivered to a callback of the ExportButton that started that export.
C35_ProgressToOwnCallback ==
  [][\A i \in 1..MaxExports, progress \in EngineProgress :
       engineProgress(i, progress) => OwnListener(i)]_vars


\* the files in the virtual filesystem of the instance that served invocation i
EngineFiles(i) == IF calls[i].ff = 0 THEN {} ELSE engines[calls[i].ff].files

\* C36: when no export is in flight, the virtual filesystem of the engine
\* holds neither the input nor the output of any finished export.
C36_FilesystemCleaned ==
  (\A j \in DOMAIN calls : ~InFlight(calls[j]))
    => \A i \in DOMAIN calls :
         /\ inputName(calls[i].file) \notin EngineFiles(i)
         /\ outputName(calls[i].options) \notin EngineFiles(i)


\* ---------------------------------------------------------------------------
\* Screen recording: the recorder module (src/unnamed/part_004, first module)
\* and App's recording flag and timer
\* ---------------------------------------------------------------------------

MaxRecordings == 2   \* "Gravar tela" clicks in one run

\* a MediaRecorder just created on a captured stream and started
NewRecorder == [state |-> "recording", started |-> FALSE, stopQueued |-> FALSE,
                track |-> "live"]

\* MediaRecorder.stop(), called or done by the browser when the stream's
\* tracks have all ended: inactive at once, the stop event is queued
StopRecorder(recs, r) ==
  IF r # 0 /\ recs[r].state = "recording"
  THEN [recs EXCEPT ![r].state = "inactive", ![r].stopQueued = TRUE]
  ELSE recs

\* stopStream(): stops the tracks of the stream the module points to, which
\* fires no ended event
stopStream(recs) ==
  IF globalStreamRef # 0
  THEN StopRecorder([recs EXCEPT ![globalStreamRef].track = "ended"], globalStreamRef)
  ELSE recs

\* App.handleRecordingStart
handleRecordingStart(id) ==
  /\ isRecording' = TRUE
  /\ intervals' = intervals \cup {id}
  /\ recordingTimerRef' = id

\* App.handleRecordingEnd
handleRecordingEnd ==
  /\ isRecording' = FALSE
  /\ intervals' = intervals \ {recordingTimerRef}
  /\ UNCHANGED recordingTimerRef

nonRecVars == <<appVars, cropVars, tlVars, exportVars, thumbVars, nLoads, nGestures>>

\* startRecording up to its await: the button is rendered while no file is
\* loaded and isRecording is false
startRecording ==
  /\ videoFile = Null
  /\ ~isRecording
  /\ Len(recorders) + pickers < MaxRecordings
  /\ globalChunksRef' = 0
  /\ globalIsActive' = FALSE
  /\ pickers' = pickers + 1
  /\ UNCHANGED <<isRecording, intervals, recordingTimerRef, recorders,
                 globalMediaRecorderRef, globalStreamRef, notifications, nonRecVars>>

\* getDisplayMedia() resolves: the recorder is created and started and the
\* notification of the parent is scheduled
captureGranted ==
  /\ pickers > 0
  /\ pickers' = pickers - 1
  /\ recorders' = Append(recorders, NewRecorder)
  /\ globalStreamRef' = Len(recorders) + 1
  /\ globalMediaRecorderRef' = Len(recorders) + 1
  /\ notifications' = notifications \cup {Len(recorders) + 1}
  /\ UNCHANGED <<isRecording, intervals, recordingTimerRef, globalIsActive,
                 globalChunksRef, nonRecVars>>

\* getDisplayMedia() rejects: the catch block
captureDenied ==
  /\ pickers > 0
  /\ pickers' = pickers - 1
  /\ UNCHANGED <<isRecording, intervals, recordingTimerRef, recorders,
                 globalMediaRecorderRef, globalStreamRef, globalIsActive,
                 globalChunksRef, notifications, nonRecVars>>

\* mediaRecorder.onstart
recorderOnStart(r) ==
  /\ r \in DOMAIN recorders
  /\ recorders[r].state = "recording"
  /\ ~recorders[r].started
  /\ recorders' = [recorders EXCEPT ![r].started = TRUE]
  /\ globalIsActive' = TRUE
  /\ UNCHANGED <<isRecording, intervals, recordingTimerRef, globalMediaRecorderRef,
                 globalStreamRef, globalChunksRef, notifications, pickers, nonRecVars>>

\* mediaRecorder.ondataavailable with a non-empty chunk: every second while
\* recording and once more before the stop event
recorderOnDataAvailable(r) ==
  /\ r \in DOMAIN recorders
  /\ recorders[r].state = "recording" \/ recorders[r].stopQueued
  /\ globalChunksRef = 0
  /\ globalChunksRef' = 1
  /\ UNCHANGED <<isRecording, intervals, recordingTimerRef, recorders,
                 globalMediaRecorderRef, globalStreamRef, globalIsActive,
                 notifications, pickers, nonRecVars>>

\* the setTimeout(() => onRecordingStart(), 100) callback
notifyRecordingStart(r) ==
  /\ r \in notifications
  /\ notifications' = notifications \ {r}
  /\ handleRecordingStart(r)
  /\ UNCHANGED <<recorders, globalMediaRecorderRef, globalStreamRef, globalIsActive,
                 globalChunksRef, pickers, nonRecVars>>

\* handleStopRecording -> stopRecordingGlobal: the "Parar" button, rendered
\* while isRecording
handleStopRecording ==
  /\ isRecording
  /\ recorders' = StopRecorder(recorders, globalMediaRecorderRef)
  /\ UNCHANGED <<isRecording, intervals, recordingTimerRef, globalMediaRecorderRef,
                 globalStreamRef, globalIsActive, globalChunksRef, notifications,
                 pickers, nonRecVars>>

\* the user ends the share from the browser: videoTrack.onended of recorder r's
\* stream runs, and the browser stops a recorder whose tracks have ended
videoTrackOnEnded(r) ==
  /\ r \in DOMAIN recorders
  /\ recorders[r].track = "live"
  /\ LET ended == [recorders EXCEPT ![r].track = "ended"] IN
     IF /\ globalIsActive
        /\ globalMediaRecorderRef # 0
        /\ recorders[globalMediaRecorderRef].state = "recording"
     THEN /\ recorders' = StopRecorder(StopRecorder(ended, globalMediaRecorderRef), r)
          /\ UNCHANGED <<isRecording, intervals, recordingTimerRef, globalStreamRef>>
     ELSE IF ~globalIsActive
     THEN /\ recorders' = StopRecorder(stopStream(ended), r)
          /\ globalStreamRef' = 0
          /\ handleRecordingEnd
     ELSE /\ recorders' = StopRecorder(ended, r)
          /\ UNCHANGED <<isRecording, intervals, recordingTimerRef, globalStreamRef>>
  /\ UNCHANGED <<globalMediaRecorderRef, globalIsActive, globalChunksRef,
                 notifications, pickers, nonRecVars>>

\* mediaRecorder.onstop of recorder r: no chunk or a blob under 1000 bytes ends
\* the recording, otherwise the file is handed to App.handleVideoLoad as well
recorderOnStop(r) ==
  /\ r \in DOMAIN recorders
  /\ recorders[r].stopQueued
  /\ globalIsActive' = FALSE
  /\ recorders' = [stopStream(recorders) EXCEPT ![r].stopQueued = FALSE]
  /\ globalStreamRef' = 0
  /\ handleRecordingEnd
  /\ UNCHANGED <<globalMediaRecorderRef, globalChunksRef, notifications, pickers>>
  /\ \/ /\ globalChunksRef = 0
        /\ UNCHANGED nonRecVars
     \/ /\ globalChunksRef > 0
        /\ \/ UNCHANGED nonRecVars
           \/ \E d \in CaptureDurations(RecordingFile) \ {Null} :
                LoadVideo(RecordingFile, d)

NextRecording ==
  \/ startRecording
  \/ captureGranted
  \/ captureDenied
  \/ \E r \in 1..MaxRecordings : recorderOnStart(r)
  \/ \E r \in 1..MaxRecordings : recorderOnDataAvailable(r)
  \/ \E r \in 1..MaxRecordings : notifyRecordingStart(r)
  \/ handleStopRecording
  \/ \E r \in 1..MaxRecordings : videoTrackOnEnded(r)
  \/ \E r \in 1..MaxRecordings : recorderOnStop(r)
  \/ handleNewVideo

SpecRecording == Init /\ [][NextRecording]_vars

\* every capture has run to its end: no request is open, no recorder records,
\* no stop event and no start notification is still to be delivered
RecordingEnded ==
  /\ recorders # << >>
  /\ pickers = 0
  /\ notifications = {}
  /\ \A r \in DOMAIN recorders : recorders[r].state = "inactive" /\ ~recorders[r].stopQueued

\* C37: once the recording has ended, however its stop, the end of the shared
\* track and the delayed start notification interleaved, isRecording is false
\* and no recording timer keeps running
C37_RecordingFlagCleared ==
  RecordingEnded => (~isRecording /\ intervals = {})


-----------------------------------------------------------------------------
(* Thumbnails and the session they are delivered to                         *)

\* call j of generateThumbnails is the one started by the load of the file the
\* session holds now
CurrentJob(j) ==
  /\ videoFile # Null
  /\ j = Len(jobs)
  /\ jobs[j].file = videoFile

\* C38: the thumbnails held by the session belong to the currently loaded
\* file: a step of a generation that changes them is a step of the generation
\* started for the file loaded now, never of one started for an earlier file
\* whose result arrives after "new video" or after another load
C38_ThumbnailsOfCurrentFile ==
  [][\A j \in DOMAIN jobs :
       (jobs'[j] # jobs[j] /\ thumbnails' # thumbnails) => CurrentJob(j)]_vars


-----------------------------------------------------------------------------
(* Resizing: the committed rectangle as a function of the gesture           *)

\* the rectangle a resize to (clientX, clientY) commits when it is worked out
\* from the gesture's initial rectangle alone
ResizeFromInitial(clientX, clientY) ==
  LET scale == getScale(videoDimensions)
      dx == Div(I(clientX - dragStart.x), scale)
      dy == Div(I(clientY - dragStart.y), scale)
  IN  ResizeCrop(initialCrop, dragHandle, initialCrop, dx, dy, isAltPressed,
                 I(videoDimensions.videoWidth), I(videoDimensions.videoHeight))

\* C39: in a resize gesture the rectangle committed by a pointer move depends
\* on the initial rectangle, the handle, the lock state and the total pointer
\* delta only, whatever the moves before it committed
C39_ResizePathIndependent ==
  (isDragging /\ dragHandle \in ResizeHandles /\ initialCrop # Null)
    => \A px \in PointerXs, py \in PointerYs :
         NewCrop(px, py) = ResizeFromInitial(px, py)

=============================================================================
